---- MODULE Spec2Model ----
(***************************************************************************)
(* Model of the finance service: the payment-status store fed by the       *)
(* employee lifecycle consumers, payment confirmation and dismissal, the   *)
(* payment cycle (automatic and manual reset), and the unified expenses    *)
(* ledger kept beside the manual expenses.                                 *)
(*                                                                         *)
(* The store is PostgreSQL at READ COMMITTED through SQLAlchemy sessions:  *)
(* every SELECT reads the committed tables; an ORM attribute change is     *)
(* written by the flush that commit() runs (UPDATE ... WHERE id = pk, only *)
(* the columns whose value differs from the loaded one); a Core            *)
(* update() statement writes at once, holds its row locks and becomes      *)
(* visible at commit.  Each step below is one statement or one commit.     *)
(***************************************************************************)
EXTENDS Integers, Sequences, FiniteSets, TLC

VARIABLES
    today,          \* date.today() / datetime.utcnow(), as a calendar date
    up,             \* the lifespan startup has completed: requests and messages are served
    positions,      \* table positions: name -> base_salary (seeded catalog)
    status,         \* table employee_payment_status: set of rows
    nextStatusId,   \* its primary-key sequence
    config,         \* table payment_cycle_config: set of rows
    nextConfigId,   \* its primary-key sequence
    manual,         \* table manual_expenses: set of rows
    nextManualId,   \* its primary-key sequence
    ledger,         \* table expenses: set of rows
    nextLedgerId,   \* its primary-key sequence
    pc,             \* per worker: position inside the running operation
    loc,            \* per worker: arguments and locals of the running operation
    pending,        \* per worker: uncommitted row updates (rows it holds locked)
    result,         \* per worker: what the operation returned / how it ended
    trace,          \* per worker: commits and publisher calls, in order
    probe,          \* bus history: one delivered event whose redelivery is observed
    bus,            \* the publisher's connection: RABBITMQ_ENABLED and channel
    page,           \* per worker: the rows of the last expense listing, in order
    inbox           \* per worker: the body of the message the bus has handed to it

vars == <<today, up, positions, status, nextStatusId, config, nextConfigId, manual,
          nextManualId, ledger, nextLedgerId, pc, loc, pending, result, trace, probe,
          bus, page, inbox>>

env == <<today, up, positions, bus>>
statusTbl == <<status, nextStatusId>>
configTbl == <<config, nextConfigId>>
expenseTbls == <<manual, nextManualId, ledger, nextLedgerId>>

----------------------------------------------------------------------------
(* Bounds of the model *)

MaxStatusId == 2
MaxManualId == 2
MaxLedgerId == 14

(* Program constants *)

DefaultResetDay == 10
MaxDescriptionLen == 255
ManualPrefixLen == 15

----------------------------------------------------------------------------
(* Values *)

Procs == {"w1", "w2"}
BusStates == {"disabled", "no_channel", "open", "closed"}
Employees == {"E1", "E2"}
Roles == {"PERSONAL_TRAINER", "INTERN"}
CatalogRoles == {"PERSONAL_TRAINER", "MANAGER"}
CategoryLens == {9, 100}
DescriptionLens == {0, 20, 300}
Values == {150, 80}

Date(y, m, d) == [year |-> y, month |-> m, day |-> d]
NoDate == Date(0, 0, 0)
StartDates == {Date(2025, 3, 9), Date(2025, 3, 10)}
NextDates == {Date(2025, 3, 10), Date(2025, 3, 15), Date(2025, 4, 11)}
ResetDays == {1, 10, 15}
ResetDayInputs == ResetDays \cup {0, 32}

DateLess(a, b) ==
    \/ a.year < b.year
    \/ a.year = b.year /\ a.month < b.month
    \/ a.year = b.year /\ a.month = b.month /\ a.day < b.day

SeededPositions ==
    [n \in {"MANAGER", "PERSONAL_TRAINER", "RECEPTIONIST", "CLEANER"} |->
        CASE n = "MANAGER" -> 0
          [] n = "PERSONAL_TRAINER" -> 3500
          [] n = "RECEPTIONIST" -> 1800
          [] n = "CLEANER" -> 1400]

NoRow == [id |-> 0, employee_id |-> "", position_name |-> "", paid |-> FALSE,
          last_payment |-> NoDate]

NoConfig == [id |-> 0, reset_day |-> 0, last_reset_date |-> NoDate]

NoOp == -1
PaymentPrefixLen == 24
EmployeeIdLen == 50
PositionNameLen == 100
MaxCategoryLen == 100

NoEvent == [kind |-> "none", emp |-> "", role |-> ""]

Idle == [kind |-> "idle", emp |-> "", role |-> "", row |-> NoRow, rows |-> {},
         cfg |-> NoConfig, count |-> 0, salary |-> 0, due0 |-> FALSE,
         redelivered |-> FALSE, led0 |-> 0, expid |-> 0, catLen |-> 0,
         descLen |-> 0, value |-> 0, found |-> FALSE, ret |-> "", fault |-> "",
         limit |-> 0, offset |-> 0]

NoResult == [code |-> "none", value |-> NoOp]

\* a key the JSON object does not carry
Absent == "-"

NoMessage == [kind |-> "", id |-> Absent, employeeId |-> Absent, role |-> ""]

----------------------------------------------------------------------------
(* Storage helpers *)

RowsOf(e) == {r \in status : r.employee_id = e}

LockedByOther(p, id) == \E q \in Procs \ {p} : \E u \in pending[q] : u.id = id

\* scalar_one_or_none(): the row, None, or MultipleResultsFound
ScalarOne(S, none) == IF S = {} THEN none ELSE CHOOSE r \in S : TRUE

\* flush of an ORM-loaded row: UPDATE ... WHERE id = pk, which matches the
\* row as long as it has not been deleted
Live(id) == \E r \in status : r.id = id

\* the rows after the pending updates U have been applied (commit of a
\* transaction that holds them)
ApplyUpdates(tbl, U) ==
    {IF \E u \in U : u.id = r.id
        THEN LET u == CHOOSE x \in U : x.id = r.id
             IN [r EXCEPT !.paid = u.paid,
                          !.last_payment = IF u.last_payment = NoDate
                                              THEN r.last_payment
                                              ELSE u.last_payment]
        ELSE r : r \in tbl}

Res(code, value) == [code |-> code, value |-> value]

\* the operation returns: its session is closed and its loaded objects are gone
Forget(l) == [l EXCEPT !.row = NoRow, !.rows = {}, !.cfg = NoConfig, !.ret = ""]

Finish(p, code, value) ==
    /\ pc' = [pc EXCEPT ![p] = "done"]
    /\ result' = [result EXCEPT ![p] = Res(code, value)]
    /\ loc' = [loc EXCEPT ![p] = Forget(@)]

\* the first statement of an operation: its locals, where it goes next and,
\* when it ends there, its result
Enter(p, l, label, res) ==
    /\ pc' = [pc EXCEPT ![p] = label]
    /\ loc' = [loc EXCEPT ![p] = IF label = "done" THEN Forget(l) ELSE l]
    /\ result' = [result EXCEPT ![p] = res]

Goto(p, label) == pc' = [pc EXCEPT ![p] = label]

\* a worker that is not inside an operation takes the next message or request
Running(p) == pc[p] \notin {"idle", "done"}

Begin(p) ==
    /\ up
    /\ ~Running(p)
    /\ pending[p] = {}

\* mutant: a failed publish raises to the caller
PublishMessageRaises(b) ==
    CASE b = "disabled" -> "skipped"
      [] b = "no_channel" -> "skipped"
      [] b = "open" -> "published"
      [] b = "closed" -> "raised"

\* publish_message: returns at once when RabbitMQ is disabled or there is no
\* channel; an exception of declare_queue or publish is caught and printed
PublishMessage(b) ==
    CASE b = "disabled" -> "skipped"
      [] b = "no_channel" -> "skipped"
      [] b = "open" -> "published"
      [] b = "closed" -> "logged"

\* the end of a request handler: what it has just done (pre), then its
\* publish_message calls in order; an exception out of the first call would
\* end the request there with 500
PublishAll(p, pre, queues, code, value) ==
    IF PublishMessage(bus) = "raised"
       THEN /\ trace' = [trace EXCEPT ![p] = @ \o pre \o <<queues[1]>>]
            /\ Finish(p, "500", 0)
       ELSE /\ trace' = [trace EXCEPT ![p] = @ \o pre \o queues]
            /\ Finish(p, code, value)

Log(p, what) == trace' = [trace EXCEPT ![p] = Append(@, what)]

NewTrace(p, what) == trace' = [trace EXCEPT ![p] = what]

----------------------------------------------------------------------------
(* Initial state: a fresh database with the seeded position catalog *)

Init ==
    /\ today \in StartDates
    /\ up = FALSE
    /\ positions = SeededPositions
    /\ bus = "open"
    /\ status = {}
    /\ nextStatusId = 1
    /\ config = {}
    /\ nextConfigId = 1
    /\ manual = {}
    /\ nextManualId = 1
    /\ ledger = {}
    /\ nextLedgerId = 1
    /\ pc = [p \in Procs |-> "idle"]
    /\ loc = [p \in Procs |-> Idle]
    /\ pending = [p \in Procs |-> {}]
    /\ result = [p \in Procs |-> NoResult]
    /\ trace = [p \in Procs |-> <<>>]
    /\ probe = NoEvent
    /\ page = [p \in Procs |-> <<>>]
    /\ inbox = [p \in Procs |-> NoMessage]

----------------------------------------------------------------------------
(* Event ingestion: app/consumers.py.  Every handler body runs inside        *)
(* message.process() and a try/except Exception, so the message is           *)
(* acknowledged however the body ends.                                       *)

Event(k, e, r) == [kind |-> k, emp |-> e, role |-> r]

\* a delivery by the bus; with mark, this delivery becomes the observed one
Delivery(ev, mark) == probe' = IF mark /\ probe = NoEvent THEN ev ELSE probe

Payload(ev) == [Idle EXCEPT !.kind = ev.kind, !.emp = ev.emp, !.role = ev.role,
                            !.redelivered = (probe = ev)]

HandlerKinds == {"registered", "deleted", "role_changed"}

\* message bodies: bytes that are not JSON, a JSON value that is not an
\* object, or an object with some of the keys the schemas look at ("rest"
\* stands for the other required fields of EmployeeRegistered)
BodyKeys == {"id", "employeeId", "role", "rest"}
Bodies ==
    {[shape |-> "garbage", keys |-> {}], [shape |-> "scalar", keys |-> {}]}
        \cup {[shape |-> "object", keys |-> k] : k \in SUBSET BodyKeys}

\* if 'employeeId' in data and 'id' not in data: data['id'] = data['employeeId']
Aliased(keys) == IF "employeeId" \in keys /\ "id" \notin keys THEN keys \cup {"id"} ELSE keys

\* the required fields of EmployeeRegistered, EmployeeDeleted, EmployeeRoleChanged
Required(kind) ==
    CASE kind = "registered" -> {"id", "role", "rest"}
      [] kind = "deleted" -> {"id"}
      [] kind = "role_changed" -> {"id", "role"}

\* json.loads(message.body.decode()), the aliasing and Schema(**data) all pass
PayloadValid(kind, body) ==
    body.shape = "object" /\ Required(kind) \subseteq Aliased(body.keys)

\* mutant: the message of a failed handler goes back to the queue
HandlerErrorRequeue(p, l) ==
    /\ Enter(p, l, "done", Res("nack", 0))
    /\ NewTrace(p, <<>>)
    /\ UNCHANGED <<env, statusTbl, configTbl, expenseTbls, pending, probe, page, inbox>>

\* except Exception: the error is printed and the handler returns, so
\* message.process() acknowledges the message
HandlerError(p, l) ==
    /\ Enter(p, l, "done", Res("ack", 0))
    /\ NewTrace(p, <<>>)
    /\ UNCHANGED <<env, statusTbl, configTbl, expenseTbls, pending, probe, page, inbox>>

\* a handler given a body that json.loads or the schema rejects
Malformed(p, kind, body) ==
    /\ Begin(p)
    /\ ~PayloadValid(kind, body)
    /\ HandlerError(p, [Idle EXCEPT !.kind = kind, !.fault = "payload"])

\* a handler whose first statement on the session raises (the database is
\* unreachable)
StorageError(p, kind, e) ==
    /\ Begin(p)
    /\ HandlerError(p, [Idle EXCEPT !.kind = kind, !.emp = e, !.fault = "storage"])

\* mutant: the handler upserts, overwriting the existing row
RegisteredExistingOverwrite(p, l) ==
    /\ Enter(p, l, "done", Res("ack", 0))
    /\ status' = {IF r.employee_id = l.emp
                     THEN [r EXCEPT !.position_name = l.role, !.paid = FALSE]
                     ELSE r : r \in status}
    /\ UNCHANGED nextStatusId

\* process_employee_registered with a row for the id: logged, nothing written
RegisteredExisting(p, l) ==
    /\ Enter(p, l, "done", Res("ack", 0))
    /\ UNCHANGED statusTbl

\* process_employee_registered, up to the existence check:
\* select(EmployeePaymentStatus).where(employee_id == id); existing => no-op
Registered(p, e, r, mark) ==
    /\ Begin(p)
    /\ RowsOf(e) # {} \/ nextStatusId <= MaxStatusId
    /\ Delivery(Event("registered", e, r), mark)
    /\ LET existing == ScalarOne(RowsOf(e), NoRow)
           l == [Payload(Event("registered", e, r)) EXCEPT
                    !.row = existing, !.found = (existing # NoRow)]
       IN IF existing # NoRow
             THEN RegisteredExisting(p, l)
             ELSE Enter(p, l, "reg_insert", NoResult) /\ UNCHANGED statusTbl
    /\ NewTrace(p, <<>>)
    /\ UNCHANGED <<env, configTbl, expenseTbls, pending, page, inbox>>

\* mutant: employee_id without the unique constraint
UniqueEmployeeIdOff(e) == TRUE

\* the unique constraint on employee_id: the INSERT of a second row for the
\* same employee raises IntegrityError
UniqueEmployeeId(e) == RowsOf(e) = {}

\* session.add(new_status); session.commit()
RegisteredInsert(p) ==
    /\ pc[p] = "reg_insert"
    /\ nextStatusId' = nextStatusId + 1
    /\ IF UniqueEmployeeId(loc[p].emp)
          THEN /\ status' = status \cup
                      {[id |-> nextStatusId, employee_id |-> loc[p].emp,
                        position_name |-> loc[p].role, paid |-> FALSE,
                        last_payment |-> NoDate]}
               /\ Log(p, "commit")
               /\ Finish(p, "ack", 1)
          ELSE /\ Finish(p, "ack", 0)
               /\ UNCHANGED <<status, trace>>
    /\ UNCHANGED <<env, configTbl, expenseTbls, pending, probe, page, inbox>>

\* mutant: the delete statement without its where clause
DeletedAll(p, e, mark) ==
    /\ Begin(p)
    /\ Delivery(Event("deleted", e, ""), mark)
    /\ \A r \in status : ~LockedByOther(p, r.id)
    /\ status' = {}
    /\ Enter(p, [Payload(Event("deleted", e, "")) EXCEPT !.found = (RowsOf(e) # {})],
             "done", Res("ack", Cardinality(status)))
    /\ NewTrace(p, <<"commit">>)
    /\ UNCHANGED <<env, nextStatusId, configTbl, expenseTbls, pending, page, inbox>>

\* process_employee_deleted:
\* delete(EmployeePaymentStatus).where(employee_id == id); session.commit()
Deleted(p, e, mark) ==
    /\ Begin(p)
    /\ Delivery(Event("deleted", e, ""), mark)
    /\ \A r \in RowsOf(e) : ~LockedByOther(p, r.id)
    /\ status' = status \ RowsOf(e)
    /\ Enter(p, [Payload(Event("deleted", e, "")) EXCEPT !.found = (RowsOf(e) # {})],
             "done", Res("ack", Cardinality(RowsOf(e))))
    /\ NewTrace(p, <<"commit">>)
    /\ UNCHANGED <<env, nextStatusId, configTbl, expenseTbls, pending, page, inbox>>

\* mutant: the handler creates the missing row
RoleAbsentCreate(p, l) ==
    /\ Enter(p, l, "done", Res("ack", 0))
    /\ status' = status \cup {[id |-> nextStatusId, employee_id |-> l.emp,
                               position_name |-> l.role, paid |-> FALSE,
                               last_payment |-> NoDate]}
    /\ nextStatusId' = nextStatusId + 1

\* process_employee_role_changed with no row for the id: logged and dropped
RoleAbsent(p, l) ==
    /\ Enter(p, l, "done", Res("ack", 0))
    /\ UNCHANGED statusTbl

\* process_employee_role_changed, up to the existence check:
\* select(EmployeePaymentStatus).where(employee_id == id)
RoleChanged(p, e, r, mark) ==
    /\ Begin(p)
    /\ Delivery(Event("role_changed", e, r), mark)
    /\ LET found == ScalarOne(RowsOf(e), NoRow)
           l == [Payload(Event("role_changed", e, r)) EXCEPT
                    !.row = found, !.found = (found # NoRow)]
       IN IF found # NoRow
             THEN Enter(p, l, "role_commit", NoResult) /\ UNCHANGED statusTbl
             ELSE RoleAbsent(p, l)
    /\ NewTrace(p, <<>>)
    /\ UNCHANGED <<env, configTbl, expenseTbls, pending, page, inbox>>

\* mutant: the handler announces the change on a queue
RoleChangedCommitPublish(p) ==
    /\ pc[p] = "role_commit"
    /\ status' = {IF r.id = loc[p].row.id THEN [r EXCEPT !.position_name = loc[p].role]
                                          ELSE r : r \in status}
    /\ trace' = [trace EXCEPT ![p] = @ \o <<"commit", "employee-role-changed-queue">>]
    /\ Finish(p, "ack", 1)
    /\ UNCHANGED <<env, nextStatusId, configTbl, expenseTbls, pending,
                   probe, page, inbox>>

\* mutant: a new role starts the employee's payment state afresh
RoleChangedCommitReset(p) ==
    /\ pc[p] = "role_commit"
    /\ ~LockedByOther(p, loc[p].row.id)
    /\ IF Live(loc[p].row.id)
          THEN /\ status' = {IF r.id = loc[p].row.id
                                THEN [r EXCEPT !.position_name = loc[p].role,
                                               !.paid = FALSE, !.last_payment = NoDate]
                                ELSE r : r \in status}
               /\ Log(p, "commit")
               /\ Finish(p, "ack", 1)
          ELSE /\ Finish(p, "ack", 0)
               /\ UNCHANGED <<status, trace>>
    /\ UNCHANGED <<env, nextStatusId, configTbl, expenseTbls, pending,
                   probe, page, inbox>>

\* employee_status.position_name = role; updated_at = utcnow(); commit():
\* UPDATE ... WHERE id = pk; no row matched raises StaleDataError (caught)
RoleChangedCommit(p) ==
    /\ pc[p] = "role_commit"
    /\ ~LockedByOther(p, loc[p].row.id)
    /\ IF Live(loc[p].row.id)
          THEN /\ status' = {IF r.id = loc[p].row.id /\ loc[p].row.position_name # loc[p].role
                                THEN [r EXCEPT !.position_name = loc[p].role]
                                ELSE r : r \in status}
               /\ Log(p, "commit")
               /\ Finish(p, "ack", 1)
          ELSE /\ Finish(p, "ack", 0)
               /\ UNCHANGED <<status, trace>>
    /\ UNCHANGED <<env, nextStatusId, configTbl, expenseTbls, pending,
                   probe, page, inbox>>

\* mutant: the alias wins over id
NormalizedAliasFirst(data) ==
    IF data.employeeId # Absent THEN [data EXCEPT !.id = data.employeeId] ELSE data

\* if 'employeeId' in data and 'id' not in data: data['id'] = data['employeeId']
Normalized(data) ==
    IF data.employeeId # Absent /\ data.id = Absent
       THEN [data EXCEPT !.id = data.employeeId]
       ELSE data

\* the bus hands a message of one of the three queues to an idle consumer
Deliver(p, m) ==
    /\ up
    /\ ~Running(p)
    /\ inbox' = [inbox EXCEPT ![p] = m]
    /\ UNCHANGED <<env, statusTbl, configTbl, expenseTbls, pc, loc, pending, result,
                   trace, probe, page>>

\* the handler of the message's queue, on the body it was handed:
\* json.loads, the aliasing, Schema(**data), then the handler's statements
Consume(p) ==
    /\ inbox[p] # NoMessage
    /\ LET data == Normalized(inbox[p])
       IN IF data.id = Absent
             THEN /\ Begin(p)
                  /\ HandlerError(p, [Idle EXCEPT !.kind = data.kind, !.fault = "payload"])
             ELSE CASE data.kind = "registered" -> Registered(p, data.id, data.role, FALSE)
                    [] data.kind = "deleted" -> Deleted(p, data.id, FALSE)
                    [] data.kind = "role_changed" ->
                          RoleChanged(p, data.id, data.role, FALSE)

----------------------------------------------------------------------------
(* Payment confirmation and dismissal: app/routes/payments.py *)

PaymentRows == {x \in ledger : x.expense_type = "employee_payment"}

\* mutant: an unknown position is paid a nominal amount
SalaryOfNominal(name) ==
    IF name # "" /\ name \in DOMAIN positions THEN positions[name] ELSE 1

\* salary_amount: the position's base_salary, 0.0 when the employee has no
\* position or the position is not in the catalog
SalaryOf(name) ==
    IF name # "" /\ name \in DOMAIN positions THEN positions[name] ELSE 0

\* confirm_payment, up to the salary lookup:
\* select(EmployeePaymentStatus).where(employee_id == employee_id), 404 if
\* none; select(Position).where(name == position_name)
Confirm(p, e) ==
    /\ Begin(p)
    /\ LET found == ScalarOne(RowsOf(e), NoRow)
           l == [Idle EXCEPT !.kind = "confirm", !.emp = e, !.row = found,
                             !.found = (found # NoRow),
                             !.salary = SalaryOf(found.position_name),
                             !.led0 = Cardinality(PaymentRows)]
       IN IF found # NoRow
             THEN Enter(p, l, "pay_commit", NoResult)
             ELSE Enter(p, l, "done", Res("404", 0))
    /\ NewTrace(p, <<>>)
    /\ UNCHANGED <<env, statusTbl, configTbl, expenseTbls, pending, probe, page, inbox>>

\* mutant: paid is set without stamping last_payment
PaidRowNoStamp(r, loaded, now) == [r EXCEPT !.paid = TRUE]

\* payment_status.paid = True; last_payment = utcnow(); updated_at = utcnow()
PaidRow(r, loaded, now) ==
    [r EXCEPT !.paid = IF loaded.paid = TRUE THEN r.paid ELSE TRUE,
              !.last_payment = now]

\* what confirm_payment writes to the expenses tables
ConfirmLedger(p) == UNCHANGED expenseTbls

\* db.commit(): UPDATE ... WHERE id = pk (StaleDataError when no row matches)
ConfirmCommit(p) ==
    /\ pc[p] = "pay_commit"
    /\ ~LockedByOther(p, loc[p].row.id)
    /\ IF Live(loc[p].row.id)
          THEN /\ status' = {IF r.id = loc[p].row.id THEN PaidRow(r, loc[p].row, today)
                                                     ELSE r : r \in status}
               /\ Log(p, "commit")
               /\ Goto(p, "pay_publish")
               /\ UNCHANGED <<result, loc>>
          ELSE /\ Finish(p, "500", 0)
               /\ UNCHANGED <<status, trace>>
    /\ ConfirmLedger(p)
    /\ UNCHANGED <<env, nextStatusId, configTbl, pending, probe, page, inbox>>

\* db.refresh(payment_status), then the three publish_message calls
ConfirmPublish(p) ==
    /\ pc[p] = "pay_publish"
    /\ IF Live(loc[p].row.id)
          THEN PublishAll(p, <<>>, <<"employee-paid-queue",
                                      "analytics-employee-status-changed-queue",
                                      "user-employee-status-changed-queue">>,
                          "ok", loc[p].salary)
          ELSE /\ Finish(p, "500", 0)
               /\ UNCHANGED trace
    /\ UNCHANGED <<env, statusTbl, configTbl, expenseTbls, pending, probe, page, inbox>>

\* mutant: dismissing an unknown employee is announced all the same
DismissLenient(p, e) ==
    /\ Begin(p)
    /\ LET found == ScalarOne(RowsOf(e), NoRow)
           l == [Idle EXCEPT !.kind = "dismiss", !.emp = e, !.row = found,
                             !.found = (found # NoRow)]
       IN IF found # NoRow
             THEN Enter(p, l, "dis_commit", NoResult)
             ELSE Enter(p, l, "done", Res("ok", 0))
    /\ NewTrace(p, IF RowsOf(e) = {} THEN <<"employee-dismissed-queue">> ELSE <<>>)
    /\ UNCHANGED <<env, statusTbl, configTbl, expenseTbls, pending, probe, page, inbox>>

\* dismiss_employee, up to the existence check (404 if none)
Dismiss(p, e) ==
    /\ Begin(p)
    /\ LET found == ScalarOne(RowsOf(e), NoRow)
           l == [Idle EXCEPT !.kind = "dismiss", !.emp = e, !.row = found,
                             !.found = (found # NoRow)]
       IN IF found # NoRow
             THEN Enter(p, l, "dis_commit", NoResult)
             ELSE Enter(p, l, "done", Res("404", 0))
    /\ NewTrace(p, <<>>)
    /\ UNCHANGED <<env, statusTbl, configTbl, expenseTbls, pending, probe, page, inbox>>

\* mutant: dismissal deletes the employee's row
DismissCommitRemove(p) ==
    /\ pc[p] = "dis_commit"
    /\ ~LockedByOther(p, loc[p].row.id)
    /\ IF Live(loc[p].row.id)
          THEN /\ status' = {r \in status : r.id # loc[p].row.id}
               /\ Log(p, "commit")
               /\ Goto(p, "dis_publish")
               /\ UNCHANGED <<result, loc>>
          ELSE /\ Finish(p, "500", 0)
               /\ UNCHANGED <<status, trace>>
    /\ UNCHANGED <<env, nextStatusId, configTbl, expenseTbls, pending,
                   probe, page, inbox>>

\* payment_status.paid = False; updated_at = utcnow(); db.commit()
DismissCommit(p) ==
    /\ pc[p] = "dis_commit"
    /\ ~LockedByOther(p, loc[p].row.id)
    /\ IF Live(loc[p].row.id)
          THEN /\ status' = {IF r.id = loc[p].row.id /\ loc[p].row.paid = TRUE
                                THEN [r EXCEPT !.paid = FALSE]
                                ELSE r : r \in status}
               /\ Log(p, "commit")
               /\ Goto(p, "dis_publish")
               /\ UNCHANGED <<result, loc>>
          ELSE /\ Finish(p, "500", 0)
               /\ UNCHANGED <<status, trace>>
    /\ UNCHANGED <<env, nextStatusId, configTbl, expenseTbls, pending,
                   probe, page, inbox>>

\* db.refresh(payment_status), then the three publish_message calls
DismissPublish(p) ==
    /\ pc[p] = "dis_publish"
    /\ IF Live(loc[p].row.id)
          THEN PublishAll(p, <<>>, <<"analytics-employee-status-changed-queue",
                                      "user-employee-status-changed-queue",
                                      "employee-dismissed-queue">>,
                          "ok", 0)
          ELSE /\ Finish(p, "500", 0)
               /\ UNCHANGED trace
    /\ UNCHANGED <<env, statusTbl, configTbl, expenseTbls, pending, probe, page, inbox>>

----------------------------------------------------------------------------
(* Payment cycle: app/services/payment_cycle.py *)

\* get_or_create_config, its select: select(PaymentCycleConfig) and
\* scalar_one_or_none() (MultipleResultsFound on more than one row).  A row
\* this session has already loaded keeps the attributes it was loaded with.
ConfigSelect(p, l, ret) ==
    /\ loc' = [loc EXCEPT ![p] =
                  IF Cardinality(config) > 1
                     THEN Forget(l)
                     ELSE [l EXCEPT !.ret = ret,
                                    !.cfg = IF Cardinality(config) = 1 /\ l.cfg = NoConfig
                                               THEN ScalarOne(config, NoConfig)
                                               ELSE l.cfg]]
    /\ pc' = [pc EXCEPT ![p] = IF Cardinality(config) > 1 THEN "done"
                               ELSE IF config = {} THEN "cfg_create" ELSE ret]
    /\ result' = [result EXCEPT ![p] = IF Cardinality(config) > 1 THEN Res("500", 0)
                                                                  ELSE NoResult]
    /\ pending' = [pending EXCEPT ![p] = IF Cardinality(config) > 1 THEN {} ELSE @]

GetConfigSelect(p) ==
    /\ pc[p] = "cfg_select"
    /\ ConfigSelect(p, loc[p], loc[p].ret)
    /\ up' = (up \/ (Cardinality(config) > 1 /\ loc[p].kind = "startup"))
    /\ UNCHANGED <<today, positions, bus, statusTbl, configTbl, expenseTbls, trace, probe, page, inbox>>

\* get_or_create_config, no row found:
\* config = PaymentCycleConfig(reset_day=10, last_reset_date=None); commit
GetConfigCreate(p) ==
    /\ pc[p] = "cfg_create"
    /\ LET c == [id |-> nextConfigId, reset_day |-> DefaultResetDay,
                 last_reset_date |-> NoDate]
       IN /\ config' = config \cup {c}
          /\ nextConfigId' = nextConfigId + 1
          /\ loc' = [loc EXCEPT ![p].cfg = c]
    /\ status' = ApplyUpdates(status, pending[p])
    /\ pending' = [pending EXCEPT ![p] = {}]
    /\ Log(p, "commit")
    /\ Goto(p, loc[p].ret)
    /\ UNCHANGED <<env, nextStatusId, expenseTbls, result, probe, page, inbox>>

\* mutant: the reset day itself does not count
ShouldResetStrict(c, t) ==
    IF c.last_reset_date = NoDate
       THEN t.day > c.reset_day
       ELSE /\ (c.last_reset_date.year # t.year \/ c.last_reset_date.month # t.month)
            /\ t.day > c.reset_day

\* mutant: a reset is due only while none has ever run
ShouldResetOnce(c, t) == c.last_reset_date = NoDate /\ t.day >= c.reset_day

\* mutant: in a month shorter than reset_day its last day is the reset day
ShouldResetClamped(c, t) ==
    LET last == IF t.month = 2
                   THEN (IF (t.year % 4 = 0 /\ t.year % 100 # 0) \/ t.year % 400 = 0
                            THEN 29 ELSE 28)
                   ELSE IF t.month \in {4, 6, 9, 11} THEN 30 ELSE 31
        due == IF c.reset_day > last THEN last ELSE c.reset_day
    IN IF c.last_reset_date = NoDate
          THEN t.day >= due
          ELSE /\ (c.last_reset_date.year # t.year \/ c.last_reset_date.month # t.month)
               /\ t.day >= due

\* mutant: a reset stamped before the reset day does not count for the month
ShouldResetByDay(c, t) ==
    IF c.last_reset_date = NoDate
       THEN t.day >= c.reset_day
       ELSE /\ \/ c.last_reset_date.year # t.year
               \/ c.last_reset_date.month # t.month
               \/ c.last_reset_date.day < c.reset_day
            /\ t.day >= c.reset_day

\* should_reset_payments, on the loaded config and date.today()
ShouldReset(c, t) ==
    IF c.last_reset_date = NoDate
       THEN t.day >= c.reset_day
       ELSE /\ (c.last_reset_date.year # t.year \/ c.last_reset_date.month # t.month)
            /\ t.day >= c.reset_day

\* a reset is due on the committed state
ResetDue == \E c \in config : config = {c} /\ ShouldReset(c, today)

\* check_and_auto_reset, entering should_reset_payments
CheckReset(p) ==
    /\ Begin(p)
    /\ ConfigSelect(p, [Idle EXCEPT !.kind = "check_reset", !.due0 = ResetDue],
                    "check_decide")
    /\ NewTrace(p, <<>>)
    /\ UNCHANGED <<env, statusTbl, configTbl, expenseTbls, probe, page, inbox>>

\* POST /payments/cycle/check-auto-reset, entering check_and_auto_reset; on
\* its None branch the route goes on to get_next_reset_date
CheckAutoReset(p) ==
    /\ Begin(p)
    /\ ConfigSelect(p, [Idle EXCEPT !.kind = "check_route", !.due0 = ResetDue],
                    "check_decide")
    /\ NewTrace(p, <<>>)
    /\ UNCHANGED <<env, statusTbl, configTbl, expenseTbls, probe, page, inbox>>

\* check_and_auto_reset: reset when due, else None
CheckDecide(p) ==
    /\ pc[p] = "check_decide"
    /\ IF ShouldReset(loc[p].cfg, today)
          THEN Goto(p, "reset_count") /\ UNCHANGED <<result, loc>>
          ELSE IF loc[p].kind = "startup"
                  THEN Goto(p, "demo_select") /\ UNCHANGED <<result, loc>>
                  ELSE IF loc[p].kind = "check_route"
                          THEN Goto(p, "next_reset") /\ UNCHANGED <<result, loc>>
                          ELSE Finish(p, "ok", NoOp)
    /\ UNCHANGED <<env, statusTbl, configTbl, expenseTbls, pending,
                   trace, probe, page, inbox>>

PaidNow == {r \in status : r.paid = TRUE}

\* mutant: every row is counted
CountedAll(l) == [l EXCEPT !.rows = {r.id : r \in PaidNow}, !.count = Cardinality(status)]

\* reset_all_payment_status, its count:
\* select(EmployeePaymentStatus).where(paid == True); count = len(...)
Counted(l) == [l EXCEPT !.rows = {r.id : r \in PaidNow}, !.count = Cardinality(PaidNow)]

ResetCount(p) ==
    /\ pc[p] = "reset_count"
    /\ loc' = [loc EXCEPT ![p] = Counted(@)]
    /\ Goto(p, "reset_update")
    /\ UNCHANGED <<env, statusTbl, configTbl, expenseTbls, pending,
                   result, trace, probe, page, inbox>>

\* mutant: the manual reset goes through the date gate
ManualResetGated(p) ==
    /\ Begin(p)
    /\ IF ResetDue
          THEN Enter(p, Counted([Idle EXCEPT !.kind = "manual_reset"]), "reset_update",
                     NoResult)
          ELSE Enter(p, [Idle EXCEPT !.kind = "manual_reset"], "done", Res("ok", NoOp))
    /\ NewTrace(p, <<>>)
    /\ UNCHANGED <<env, statusTbl, configTbl, expenseTbls, pending, probe, page, inbox>>

\* manual_reset_payment_cycle: reset_all_payment_status without the date gate
ManualReset(p) ==
    /\ Begin(p)
    /\ Enter(p, Counted([Idle EXCEPT !.kind = "manual_reset"]), "reset_update", NoResult)
    /\ NewTrace(p, <<>>)
    /\ UNCHANGED <<env, statusTbl, configTbl, expenseTbls, pending, probe, page, inbox>>

\* update(EmployeePaymentStatus).where(paid == True).values(paid=False): waits
\* for the rows another transaction holds, then holds the rows it changed
ResetUpdate(p) ==
    /\ pc[p] = "reset_update"
    /\ \A r \in PaidNow : ~LockedByOther(p, r.id)
    /\ pending' = [pending EXCEPT ![p] =
                      {[id |-> r.id, paid |-> FALSE, last_payment |-> NoDate] : r \in PaidNow}]
    /\ loc' = [loc EXCEPT ![p].ret = "reset_commit"]
    /\ Goto(p, "cfg_select")
    /\ UNCHANGED <<env, statusTbl, configTbl, expenseTbls, result,
                   trace, probe, page, inbox>>

\* mutant: a reset also clears the payment history of the ledger
ResetCommitPurge(p) ==
    /\ pc[p] = "reset_commit"
    /\ status' = ApplyUpdates(status, pending[p])
    /\ pending' = [pending EXCEPT ![p] = {}]
    /\ config' = {IF c.id = loc[p].cfg.id THEN [c EXCEPT !.last_reset_date = today]
                                          ELSE c : c \in config}
    /\ ledger' = ledger \ PaymentRows
    /\ Log(p, "commit")
    /\ IF loc[p].kind = "startup"
          THEN Goto(p, "demo_select") /\ UNCHANGED <<result, loc>>
          ELSE Finish(p, "ok", loc[p].count)
    /\ UNCHANGED <<env, nextStatusId, nextConfigId, manual, nextManualId, nextLedgerId,
                   probe, page, inbox>>

\* config.last_reset_date = date.today(); db.commit(); return count
ResetCommit(p) ==
    /\ pc[p] = "reset_commit"
    /\ status' = ApplyUpdates(status, pending[p])
    /\ pending' = [pending EXCEPT ![p] = {}]
    /\ config' = {IF c.id = loc[p].cfg.id THEN [c EXCEPT !.last_reset_date = today]
                                          ELSE c : c \in config}
    /\ Log(p, "commit")
    /\ IF loc[p].kind = "startup"
          THEN Goto(p, "demo_select") /\ UNCHANGED <<result, loc>>
          ELSE Finish(p, "ok", loc[p].count)
    /\ UNCHANGED <<env, nextStatusId, nextConfigId, expenseTbls, probe, page, inbox>>

\* mutant: any integer is accepted
ResetDayValidOff(d) == TRUE

\* PaymentCycleConfigUpdate: reset_day ge=1, le=31
ResetDayValid(d) == d >= 1 /\ d <= 31

\* update_payment_cycle_config: the request body is validated, then
\* update_config enters get_or_create_config
UpdateConfig(p, d) ==
    /\ Begin(p)
    /\ IF ResetDayValid(d)
          THEN ConfigSelect(p, [Idle EXCEPT !.kind = "update_config", !.value = d],
                            "cfg_update")
          ELSE /\ Enter(p, [Idle EXCEPT !.kind = "update_config", !.value = d],
                        "done", Res("422", 0))
               /\ UNCHANGED pending
    /\ NewTrace(p, <<>>)
    /\ UNCHANGED <<env, statusTbl, configTbl, expenseTbls, probe, page, inbox>>

\* mutant: changing the reset day also stamps the change as a reset
UpdateConfigCommitStamp(p) ==
    /\ pc[p] = "cfg_update"
    /\ config' = {IF c.id = loc[p].cfg.id
                     THEN [c EXCEPT !.reset_day = loc[p].value, !.last_reset_date = today]
                     ELSE c : c \in config}
    /\ Log(p, "commit")
    /\ Finish(p, "ok", loc[p].value)
    /\ UNCHANGED <<env, statusTbl, nextConfigId, expenseTbls, pending, probe, page, inbox>>

\* update_config: config.reset_day = reset_day; db.commit()
UpdateConfigCommit(p) ==
    /\ pc[p] = "cfg_update"
    /\ config' = {IF c.id = loc[p].cfg.id THEN [c EXCEPT !.reset_day = loc[p].value]
                                          ELSE c : c \in config}
    /\ Log(p, "commit")
    /\ Finish(p, "ok", loc[p].value)
    /\ UNCHANGED <<env, statusTbl, nextConfigId, expenseTbls, pending, probe, page, inbox>>

\* datetime.date(year, month, day) raises ValueError unless the day exists
IsLeap(y) == (y % 4 = 0 /\ y % 100 # 0) \/ y % 400 = 0

DaysIn(y, m) ==
    IF m = 2 THEN (IF IsLeap(y) THEN 29 ELSE 28)
    ELSE IF m \in {4, 6, 9, 11} THEN 30 ELSE 31

ValidDate(d) == d.month \in 1..12 /\ d.day \in 1..DaysIn(d.year, d.month)

\* next_reset.isoformat(): year, month and day in fixed-width fields
DateNum(d) == d.year * 10000 + d.month * 100 + d.day

\* mutant: the reset day itself still counts as ahead
NextResetDateInclusive(t, reset_day) ==
    IF t.day <= reset_day
       THEN Date(t.year, t.month, reset_day)
       ELSE IF t.month = 12 THEN Date(t.year + 1, 1, reset_day)
                            ELSE Date(t.year, t.month + 1, reset_day)

\* mutant: a reset day the month does not have becomes the month's last day
NextResetDateClamped(t, reset_day) ==
    LET m == IF t.day < reset_day THEN t.month
             ELSE IF t.month = 12 THEN 1 ELSE t.month + 1
        y == IF t.day >= reset_day /\ t.month = 12 THEN t.year + 1 ELSE t.year
    IN Date(y, m, IF reset_day > DaysIn(y, m) THEN DaysIn(y, m) ELSE reset_day)

\* get_next_reset_date, the arguments of the date(...) it returns
NextResetDate(t, reset_day) ==
    IF t.day < reset_day
       THEN Date(t.year, t.month, reset_day)
       ELSE IF t.month = 12 THEN Date(t.year + 1, 1, reset_day)
                            ELSE Date(t.year, t.month + 1, reset_day)

\* GET /payments/cycle/next-reset, entering get_or_create_config
GetNextResetDate(p) ==
    /\ Begin(p)
    /\ ConfigSelect(p, [Idle EXCEPT !.kind = "next_reset"], "next_reset")
    /\ NewTrace(p, <<>>)
    /\ UNCHANGED <<env, statusTbl, configTbl, expenseTbls, probe, page, inbox>>

\* get_next_reset_date: today = date.today() and the date is built (a
\* ValueError is a 500); the route then reads the configuration again
NextResetReturn(p) ==
    /\ pc[p] = "next_reset"
    /\ LET d == NextResetDate(today, loc[p].cfg.reset_day)
       IN IF ValidDate(d) /\ Cardinality(config) <= 1
             THEN Finish(p, "ok", DateNum(d))
             ELSE Finish(p, "500", 0)
    /\ UNCHANGED <<env, statusTbl, configTbl, expenseTbls, pending, trace, probe, page, inbox>>

----------------------------------------------------------------------------
(* Startup: lifespan in app/main.py.  The automatic reset check, then the    *)
(* demo payments, then the demo expenses; an exception in any of them is     *)
(* caught and the service starts all the same.                               *)

Quiescent == \A q \in Procs : ~Running(q)

\* lifespan, entering PaymentCycleService.check_and_auto_reset
Startup(p) ==
    /\ Quiescent
    /\ up' = FALSE
    /\ ConfigSelect(p, [Idle EXCEPT !.kind = "startup"], "check_decide")
    /\ NewTrace(p, <<>>)
    /\ UNCHANGED <<today, positions, bus, statusTbl, configTbl, expenseTbls, probe, page, inbox>>

UnpaidNow == {r \in status : r.paid = FALSE}

\* employees_to_pay = max(1, total_employees // 2)
EmployeesToPay(n) == IF n \div 2 >= 1 THEN n \div 2 ELSE 1

\* initialize_demo_payments: select(...).where(paid == False), then
\* random.sample(unpaid_employees, employees_to_pay)
DemoSelect(p) ==
    /\ pc[p] = "demo_select"
    /\ IF UnpaidNow = {}
          THEN /\ loc' = [loc EXCEPT ![p].count = 0, ![p].rows = {}]
               /\ Goto(p, "seed_expenses")
          ELSE \E S \in SUBSET UnpaidNow :
                  /\ Cardinality(S) = EmployeesToPay(Cardinality(UnpaidNow))
                  /\ loc' = [loc EXCEPT ![p].count = 0, ![p].rows = S]
                  /\ Goto(p, "demo_pay")
    /\ UNCHANGED <<env, statusTbl, configTbl, expenseTbls, pending, result, trace, probe, page, inbox>>

\* one turn of the loop: employee.paid = True; last_payment = utcnow();
\* publish_message("employee-paid-queue", ...); paid_count += 1
DemoPay(p) ==
    /\ pc[p] = "demo_pay"
    /\ \E r \in loc[p].rows :
          /\ ~LockedByOther(p, r.id)
          /\ pending' = [pending EXCEPT ![p] =
                            @ \cup {[id |-> r.id, paid |-> TRUE, last_payment |-> today]}]
          /\ loc' = [loc EXCEPT ![p].rows = @ \ {r}, ![p].count = @ + 1]
          /\ Log(p, "employee-paid-queue")
          /\ Goto(p, IF loc[p].rows = {r} THEN "demo_commit" ELSE "demo_pay")
    /\ UNCHANGED <<env, statusTbl, configTbl, expenseTbls, result, probe, page, inbox>>

\* initialize_demo_payments: db.commit(), the UPDATE of every selected row
\* (StaleDataError when one of them is gone)
DemoCommit(p) ==
    /\ pc[p] = "demo_commit"
    /\ pending' = [pending EXCEPT ![p] = {}]
    /\ IF \A u \in pending[p] : Live(u.id)
          THEN /\ status' = ApplyUpdates(status, pending[p])
               /\ Log(p, "commit")
               /\ Goto(p, "seed_expenses")
               /\ UNCHANGED <<result, loc, up>>
          ELSE /\ Finish(p, "500", 0)
               /\ up' = TRUE
               /\ UNCHANGED <<status, trace>>
    /\ UNCHANGED <<today, positions, bus, nextStatusId, configTbl, expenseTbls, probe, page, inbox>>

\* seed_demo_expenses: the twelve demo rows, as (amount, day of 2025-08, type,
\* reference_id)
DemoExpenses ==
    << <<2500, 1, "equipment", 0>>, <<350, 2, "maintenance", 0>>,
       <<1200, 3, "utilities", 0>>, <<180, 3, "cleaning", 0>>,
       <<3500, 1, "employee_payment", 1001>>, <<2200, 1, "employee_payment", 1002>>,
       <<2800, 1, "employee_payment", 1003>>, <<1500, 4, "inventory", 0>>,
       <<800, 5, "marketing", 0>>, <<450, 5, "supplies", 0>>,
       <<1200, 6, "equipment", 0>>, <<320, 6, "supplies", 0>> >>

SeedThreshold == 10

\* seed_demo_expenses: skipped when the table holds 10 rows or more
SeedExpenses(p) ==
    /\ pc[p] = "seed_expenses"
    /\ IF Cardinality(ledger) >= SeedThreshold
          THEN UNCHANGED <<ledger, nextLedgerId, trace>>
          ELSE /\ ledger' = ledger \cup
                      {[id |-> nextLedgerId + i - 1, amount |-> DemoExpenses[i][1],
                        expense_date |-> Date(2025, 8, DemoExpenses[i][2]),
                        expense_type |-> DemoExpenses[i][3],
                        reference_id |-> DemoExpenses[i][4]] : i \in DOMAIN DemoExpenses}
               /\ nextLedgerId' = nextLedgerId + Len(DemoExpenses)
               /\ Log(p, "commit")
    /\ Finish(p, "ok", loc[p].count)
    /\ up' = TRUE
    /\ UNCHANGED <<today, positions, bus, statusTbl, configTbl, manual, nextManualId,
                   pending, probe, page, inbox>>

\* the calendar moves on
AdvanceDate(d) ==
    /\ d \in NextDates
    /\ DateLess(today, d)
    /\ today' = d
    /\ UNCHANGED <<up, positions, bus, statusTbl, configTbl, expenseTbls, pc, loc, pending,
                   result, trace, probe, page, inbox>>

----------------------------------------------------------------------------
(* Manual expenses and the unified expenses table: app/routes/expenses.py    *)
(* and app/services/expense_service.py                                       *)

ManualLedgerRows(id) ==
    {x \in ledger : x.expense_type = "manual" /\ x.reference_id = id}

\* len(f"Gasto Manual - {category}" + (f": {description}" if description else ""))
EntryDescriptionLen(catLen, descLen) ==
    ManualPrefixLen + catLen + (IF descLen > 0 THEN 2 + descLen ELSE 0)

\* mutant: ExpenseCreate without the bound on amount
ExpenseValidAnyAmount(len, amount) == len <= MaxDescriptionLen

\* ExpenseCreate(...): description max_length=255, amount gt=0
ExpenseValid(len, amount) == len <= MaxDescriptionLen /\ amount > 0

\* create_manual_expense, its first commit:
\* new_expense = ManualExpense(**expense_data.model_dump()); db.add; db.commit
CreateManual(p, catLen, descLen, value) ==
    /\ Begin(p)
    /\ nextManualId <= MaxManualId
    /\ manual' = manual \cup {[id |-> nextManualId, value |-> value, date |-> today,
                               catLen |-> catLen, descLen |-> descLen]}
    /\ nextManualId' = nextManualId + 1
    /\ Enter(p, [Idle EXCEPT !.kind = "create_expense", !.expid = nextManualId,
                             !.catLen = catLen, !.descLen = descLen, !.value = value],
             "exp_entry", NoResult)
    /\ NewTrace(p, <<"commit">>)
    /\ UNCHANGED <<env, statusTbl, configTbl, ledger, nextLedgerId,
                   pending, probe, page, inbox>>

\* db.refresh(new_expense); ExpenseService.create_manual_expense_entry:
\* ExpenseCreate(...) validates, create_expense adds the row and commits
CreateEntry(p) ==
    /\ pc[p] = "exp_entry"
    /\ IF /\ \E m \in manual : m.id = loc[p].expid
          /\ ExpenseValid(EntryDescriptionLen(loc[p].catLen, loc[p].descLen), loc[p].value)
          THEN /\ ledger' = ledger \cup
                      {[id |-> nextLedgerId, amount |-> loc[p].value,
                        expense_date |-> (CHOOSE m \in manual : m.id = loc[p].expid).date,
                        expense_type |-> "manual", reference_id |-> loc[p].expid]}
               /\ nextLedgerId' = nextLedgerId + 1
               /\ loc' = [loc EXCEPT ![p].row = [NoRow EXCEPT !.id = nextLedgerId]]
               /\ Log(p, "commit")
               /\ Goto(p, "exp_publish")
               /\ UNCHANGED result
          ELSE /\ Finish(p, "500", 0)
               /\ UNCHANGED <<ledger, nextLedgerId, trace>>
    /\ UNCHANGED <<env, statusTbl, configTbl, manual, nextManualId,
                   pending, probe, page, inbox>>

\* db.refresh(expense) in create_expense, then publish_message
CreatePublish(p) ==
    /\ pc[p] = "exp_publish"
    /\ IF \E x \in ledger : x.id = loc[p].row.id
          THEN PublishAll(p, <<>>, <<"finance.expense.registered">>, "ok", loc[p].expid)
          ELSE /\ Finish(p, "500", 0)
               /\ UNCHANGED trace
    /\ UNCHANGED <<env, statusTbl, configTbl, expenseTbls, pending, probe, page, inbox>>

\* ManualExpenseCreate: category max_length=100, value gt=0
ManualExpenseValid(catLen, value) == catLen <= MaxCategoryLen /\ value > 0

\* create_manual_expense given a body that ManualExpenseCreate rejects: 422
\* before the route runs
CreateManualRejected(p, catLen, descLen, value) ==
    /\ Begin(p)
    /\ ~ManualExpenseValid(catLen, value)
    /\ Enter(p, [Idle EXCEPT !.kind = "create_expense", !.catLen = catLen,
                             !.descLen = descLen, !.value = value],
             "done", Res("422", 0))
    /\ NewTrace(p, <<>>)
    /\ UNCHANGED <<env, statusTbl, configTbl, expenseTbls, pending, probe, page, inbox>>

\* len(f"Pagamento Funcionário - {employee_id}" + f" ({position_name})"), at
\* the widths of the employee_id and position_name columns
PaymentDescriptionLen(withPosition) ==
    PaymentPrefixLen + EmployeeIdLen + (IF withPosition THEN 3 + PositionNameLen ELSE 0)

\* create_employee_payment_entry: the status row is looked up for its id,
\* ExpenseCreate(...) validates, create_expense adds the row and commits
CreateEmployeePaymentEntry(p, e, amount, withPosition) ==
    /\ Begin(p)
    /\ nextLedgerId <= MaxLedgerId
    /\ LET l == [Idle EXCEPT !.kind = "payment_entry", !.emp = e, !.value = amount,
                             !.led0 = Cardinality(PaymentRows)]
       IN IF /\ Cardinality(RowsOf(e)) <= 1
             /\ ExpenseValid(PaymentDescriptionLen(withPosition), amount)
             THEN /\ ledger' = ledger \cup
                         {[id |-> nextLedgerId, amount |-> amount, expense_date |-> today,
                           expense_type |-> "employee_payment",
                           reference_id |-> ScalarOne(RowsOf(e), NoRow).id]}
                  /\ nextLedgerId' = nextLedgerId + 1
                  /\ Enter(p, l, "done", Res("ok", nextLedgerId))
                  /\ NewTrace(p, <<"commit">>)
             ELSE /\ Enter(p, l, "done", Res("500", 0))
                  /\ NewTrace(p, <<>>)
                  /\ UNCHANGED <<ledger, nextLedgerId>>
    /\ UNCHANGED <<env, statusTbl, configTbl, manual, nextManualId, pending, probe, page,
                   inbox>>

\* delete_manual_expense, up to the existence check:
\* select(ManualExpense).where(id == expense_id); 404 if none
DeleteManual(p, id) ==
    /\ Begin(p)
    /\ IF \E m \in manual : m.id = id
          THEN Enter(p, [Idle EXCEPT !.kind = "delete_expense", !.expid = id, !.found = TRUE],
                     "del_entry_select", NoResult)
          ELSE Enter(p, [Idle EXCEPT !.kind = "delete_expense", !.expid = id],
                     "done", Res("404", 0))
    /\ NewTrace(p, <<>>)
    /\ UNCHANGED <<env, statusTbl, configTbl, expenseTbls, pending, probe, page, inbox>>

\* delete_expense_by_reference: select(Expense).where(expense_type == "manual",
\* reference_id == expense_id); scalar_one_or_none
DeleteEntrySelect(p) ==
    /\ pc[p] = "del_entry_select"
    /\ LET S == ManualLedgerRows(loc[p].expid)
       IN IF Cardinality(S) > 1
             THEN Finish(p, "500", 0)
             ELSE /\ loc' = [loc EXCEPT ![p].row =
                                [NoRow EXCEPT !.id = IF S = {} THEN 0
                                                     ELSE (CHOOSE x \in S : TRUE).id]]
                  /\ Goto(p, IF S = {} THEN "del_manual_commit" ELSE "del_entry_commit")
                  /\ UNCHANGED result
    /\ UNCHANGED <<env, statusTbl, configTbl, expenseTbls, pending,
                   trace, probe, page, inbox>>

\* mutant: the ledger row is left in place
DeleteEntryCommitKeep(p) ==
    /\ pc[p] = "del_entry_commit"
    /\ Log(p, "commit")
    /\ Goto(p, "del_manual_commit")
    /\ UNCHANGED <<env, statusTbl, configTbl, expenseTbls, loc, pending, result, probe, page, inbox>>

\* delete_expense_by_reference: db.delete(expense); db.commit()
DeleteEntryCommit(p) ==
    /\ pc[p] = "del_entry_commit"
    /\ ledger' = {x \in ledger : x.id # loc[p].row.id}
    /\ Log(p, "commit")
    /\ Goto(p, "del_manual_commit")
    /\ UNCHANGED <<env, statusTbl, configTbl, manual, nextManualId,
                   nextLedgerId, loc, pending, result, probe, page, inbox>>

\* delete_manual_expense: db.delete(expense); db.commit(); publish_message
DeleteManualCommit(p) ==
    /\ pc[p] = "del_manual_commit"
    /\ manual' = {m \in manual : m.id # loc[p].expid}
    /\ PublishAll(p, <<"commit">>, <<"finance.expense.deleted">>, "ok", loc[p].expid)
    /\ UNCHANGED <<env, statusTbl, configTbl, nextManualId, ledger,
                   nextLedgerId, pending, probe, page, inbox>>

\* delete_manual_expense: the database is lost at the route's own
\* db.delete(expense); db.commit(), and the request ends with an error
DeleteManualCommitFails(p) ==
    /\ pc[p] = "del_manual_commit"
    /\ loc' = [loc EXCEPT ![p] = Forget([@ EXCEPT !.fault = "storage"])]
    /\ pc' = [pc EXCEPT ![p] = "done"]
    /\ result' = [result EXCEPT ![p] = Res("500", 0)]
    /\ UNCHANGED <<env, statusTbl, configTbl, expenseTbls, pending, trace, probe, page, inbox>>

\* order_by(Expense.expense_date.desc()) and nothing more: the place of a row
\* in the result is fixed by its date alone, and rows of one date come in
\* whatever order the database's plan produces for this statement
Above(x) == Cardinality({y \in ledger : DateLess(x.expense_date, y.expense_date)})

Ties(x) == Cardinality({y \in ledger : y.expense_date = x.expense_date})

MayStandAt(x, k) == Above(x) < k /\ k <= Above(x) + Ties(x)

\* the sequences of ids that can fill places k..last with rows not yet used
RECURSIVE OrderedFrom(_, _, _)
OrderedFrom(k, last, used) ==
    IF k > last
       THEN {<<>>}
       ELSE UNION {{<<x.id>> \o t : t \in OrderedFrom(k + 1, last, used \cup {x})} :
                      x \in {y \in ledger \ used : MayStandAt(y, k)}}

\* get_all_expenses: "if limit: query.limit(limit)" and "if offset:
\* query.offset(offset)", so 0 is no limit
Pages(limit, offset) ==
    LET n == Cardinality(ledger)
        last == IF limit = 0 \/ offset + limit > n THEN n ELSE offset + limit
    IN OrderedFrom(offset + 1, last, {})

\* GET /expenses/?limit=&offset=: one SELECT on the expenses table
GetAllExpenses(p, limit, offset) ==
    /\ Begin(p)
    /\ \E rows \in Pages(limit, offset) :
          /\ page' = [page EXCEPT ![p] = rows]
          /\ Enter(p, [Idle EXCEPT !.kind = "list", !.limit = limit, !.offset = offset],
                   "done", Res("ok", Len(rows)))
    /\ NewTrace(p, <<>>)
    /\ UNCHANGED <<env, statusTbl, configTbl, expenseTbls, pending, probe, inbox>>

----------------------------------------------------------------------------
(* Specifications *)

\* the state a first startup on date d leaves: the default config row (stamped
\* when the reset day has come), the demo expenses
BootedWith(d, b) ==
    /\ today = d
    /\ up = TRUE
    /\ positions = SeededPositions
    /\ bus = b
    /\ status = {}
    /\ nextStatusId = 1
    /\ config = {[id |-> 1, reset_day |-> DefaultResetDay,
                  last_reset_date |-> IF d.day >= DefaultResetDay THEN d ELSE NoDate]}
    /\ nextConfigId = 2
    /\ manual = {}
    /\ nextManualId = 1
    /\ ledger = {[id |-> i, amount |-> DemoExpenses[i][1],
                  expense_date |-> Date(2025, 8, DemoExpenses[i][2]),
                  expense_type |-> DemoExpenses[i][3],
                  reference_id |-> DemoExpenses[i][4]] : i \in DOMAIN DemoExpenses}
    /\ nextLedgerId = Len(DemoExpenses) + 1
    /\ pc = [p \in Procs |-> "idle"]
    /\ loc = [p \in Procs |-> Idle]
    /\ pending = [p \in Procs |-> {}]
    /\ result = [p \in Procs |-> NoResult]
    /\ trace = [p \in Procs |-> <<>>]
    /\ probe = NoEvent
    /\ page = [p \in Procs |-> <<>>]
    /\ inbox = [p \in Procs |-> NoMessage]

Booted(d) == BootedWith(d, "open")

\* one worker: the payment-status operations, one at a time, from the first
\* startup on a fresh database
Step(p) ==
    \/ Startup(p)
    \/ DemoSelect(p)
    \/ DemoPay(p)
    \/ DemoCommit(p)
    \/ SeedExpenses(p)
    \/ \E e \in Employees, r \in Roles : Registered(p, e, r, FALSE)
    \/ RegisteredInsert(p)
    \/ \E e \in Employees : Deleted(p, e, FALSE)
    \/ \E e \in Employees, r \in Roles : RoleChanged(p, e, r, FALSE)
    \/ RoleChangedCommit(p)
    \/ \E e \in Employees : Confirm(p, e)
    \/ ConfirmCommit(p)
    \/ ConfirmPublish(p)
    \/ \E e \in Employees : Dismiss(p, e)
    \/ DismissCommit(p)
    \/ DismissPublish(p)
    \/ CheckReset(p)
    \/ CheckDecide(p)
    \/ ManualReset(p)
    \/ ResetCount(p)
    \/ ResetUpdate(p)
    \/ ResetCommit(p)
    \/ GetConfigSelect(p)
    \/ GetConfigCreate(p)

Next == Step("w1") \/ \E d \in NextDates : AdvanceDate(d)

Spec == Init /\ [][Next]_vars

\* the manual-expense operations (they share no table with the payment
\* status), one at a time
LedgerStep(p) ==
    \/ \E c \in CategoryLens, d \in DescriptionLens, v \in Values : CreateManual(p, c, d, v)
    \/ CreateEntry(p)
    \/ CreatePublish(p)
    \/ \E id \in 1..MaxManualId : DeleteManual(p, id)
    \/ DeleteEntrySelect(p)
    \/ DeleteEntryCommit(p)
    \/ DeleteManualCommit(p)

NextLedger == LedgerStep("w1") \/ \E d \in NextDates : AdvanceDate(d)

SpecLedger == (\E d \in StartDates : Booted(d)) /\ [][NextLedger]_vars

\* the manual-expense operations running concurrently
NextExpense == \E p \in Procs : LedgerStep(p)

SpecExpense == Booted(Date(2025, 3, 10)) /\ [][NextExpense]_vars

\* the message handlers running concurrently
NextEvents ==
    \E p \in Procs :
        \/ \E e \in Employees, r \in CatalogRoles : Registered(p, e, r, FALSE)
        \/ RegisteredInsert(p)
        \/ \E e \in Employees : Deleted(p, e, FALSE)
        \/ \E e \in Employees, r \in CatalogRoles : RoleChanged(p, e, r, FALSE)
        \/ RoleChangedCommit(p)

SpecEvents == Booted(Date(2025, 3, 10)) /\ [][NextEvents]_vars

\* a due date: the service came up on the 9th, employees were registered and
\* some of them paid, and the 10th (the default reset day) has come
Staff(paid1, paid2) ==
    {[id |-> 1, employee_id |-> "E1", position_name |-> "PERSONAL_TRAINER",
      paid |-> paid1, last_payment |-> IF paid1 THEN Date(2025, 3, 9) ELSE NoDate],
     [id |-> 2, employee_id |-> "E2", position_name |-> "MANAGER",
      paid |-> paid2, last_payment |-> IF paid2 THEN Date(2025, 3, 9) ELSE NoDate]}

InitReset ==
    /\ today = Date(2025, 3, 10)
    /\ up = TRUE
    /\ positions = SeededPositions
    /\ bus = "open"
    /\ \E paid1, paid2 \in BOOLEAN : status = Staff(paid1, paid2)
    /\ nextStatusId = 3
    /\ config = {[id |-> 1, reset_day |-> DefaultResetDay, last_reset_date |-> NoDate]}
    /\ nextConfigId = 2
    /\ manual = {}
    /\ nextManualId = 1
    /\ ledger = {[id |-> i, amount |-> DemoExpenses[i][1],
                  expense_date |-> Date(2025, 8, DemoExpenses[i][2]),
                  expense_type |-> DemoExpenses[i][3],
                  reference_id |-> DemoExpenses[i][4]] : i \in DOMAIN DemoExpenses}
    /\ nextLedgerId = Len(DemoExpenses) + 1
    /\ pc = [p \in Procs |-> "idle"]
    /\ loc = [p \in Procs |-> Idle]
    /\ pending = [p \in Procs |-> {}]
    /\ result = [p \in Procs |-> NoResult]
    /\ trace = [p \in Procs |-> <<>>]
    /\ probe = NoEvent
    /\ page = [p \in Procs |-> <<>>]
    /\ inbox = [p \in Procs |-> NoMessage]

\* resets and payment confirmations running concurrently
NextReset ==
    \E p \in Procs :
        \/ CheckReset(p)
        \/ CheckDecide(p)
        \/ ManualReset(p)
        \/ ResetCount(p)
        \/ ResetUpdate(p)
        \/ GetConfigSelect(p)
        \/ ResetCommit(p)
        \/ \E e \in Employees : Confirm(p, e)
        \/ ConfirmCommit(p)
        \/ ConfirmPublish(p)

SpecReset == InitReset /\ [][NextReset]_vars

\* the bus delivering and redelivering lifecycle events, one handler at a time
NextBus ==
    \E e \in Employees, mark \in BOOLEAN :
        \/ \E r \in CatalogRoles : Registered("w1", e, r, mark)
        \/ RegisteredInsert("w1")
        \/ Deleted("w1", e, mark)
        \/ \E r \in CatalogRoles : RoleChanged("w1", e, r, mark)
        \/ RoleChangedCommit("w1")

SpecBus == Booted(Date(2025, 3, 10)) /\ [][NextBus]_vars

\* the payment cycle with one request at a time: the service came up on the
\* 9th, employees were registered and some of them paid
InitCycle ==
    /\ today = Date(2025, 3, 9)
    /\ up = TRUE
    /\ positions = SeededPositions
    /\ bus = "open"
    /\ \E paid1, paid2 \in BOOLEAN : status = Staff(paid1, paid2)
    /\ nextStatusId = 3
    /\ config = {[id |-> 1, reset_day |-> DefaultResetDay, last_reset_date |-> NoDate]}
    /\ nextConfigId = 2
    /\ manual = {}
    /\ nextManualId = 1
    /\ ledger = {[id |-> i, amount |-> DemoExpenses[i][1],
                  expense_date |-> Date(2025, 8, DemoExpenses[i][2]),
                  expense_type |-> DemoExpenses[i][3],
                  reference_id |-> DemoExpenses[i][4]] : i \in DOMAIN DemoExpenses}
    /\ nextLedgerId = Len(DemoExpenses) + 1
    /\ pc = [p \in Procs |-> "idle"]
    /\ loc = [p \in Procs |-> Idle]
    /\ pending = [p \in Procs |-> {}]
    /\ result = [p \in Procs |-> NoResult]
    /\ trace = [p \in Procs |-> <<>>]
    /\ probe = NoEvent
    /\ page = [p \in Procs |-> <<>>]
    /\ inbox = [p \in Procs |-> NoMessage]

\* a day passes between two requests
Tick(d) == Quiescent /\ AdvanceDate(d)

\* automatic checks and payment confirmations, one request at a time
MonthlyStep(p) ==
    \/ CheckReset(p)
    \/ CheckDecide(p)
    \/ ResetCount(p)
    \/ ResetUpdate(p)
    \/ GetConfigSelect(p)
    \/ ResetCommit(p)
    \/ \E e \in Employees : Confirm(p, e)
    \/ ConfirmCommit(p)
    \/ ConfirmPublish(p)

NextMonthly == MonthlyStep("w1") \/ \E d \in NextDates : Tick(d)

\* the reset day the operator has configured before the first check
InitMonthly ==
    \E d \in ResetDays :
        /\ InitCycle
        /\ config = {[id |-> 1, reset_day |-> d, last_reset_date |-> NoDate]}

SpecMonthly == InitMonthly /\ [][NextMonthly]_vars

\* the same with the operator's requests: manual resets and changes of the
\* reset day
NextCycle ==
    \/ MonthlyStep("w1")
    \/ ManualReset("w1")
    \/ \E d \in ResetDayInputs : UpdateConfig("w1", d)
    \/ UpdateConfigCommit("w1")
    \/ \E d \in NextDates : Tick(d)

SpecCycle == InitCycle /\ [][NextCycle]_vars

\* one consumer taking well-formed and malformed messages, with a database
\* that may be unreachable
NextIngest ==
    \/ \E e \in Employees, r \in CatalogRoles : Registered("w1", e, r, FALSE)
    \/ RegisteredInsert("w1")
    \/ \E e \in Employees : Deleted("w1", e, FALSE)
    \/ \E e \in Employees, r \in CatalogRoles : RoleChanged("w1", e, r, FALSE)
    \/ RoleChangedCommit("w1")
    \/ \E kind \in HandlerKinds, body \in Bodies : Malformed("w1", kind, body)
    \/ \E kind \in HandlerKinds, e \in Employees : StorageError("w1", kind, e)

SpecIngest == Booted(Date(2025, 3, 10)) /\ [][NextIngest]_vars

\* the HTTP boundary, one request at a time, with the publisher in each of
\* its states; the employee's role may be in the catalog, absent from it or
\* empty
BoundaryRoles == {"PERSONAL_TRAINER", "INTERN", ""}

NextBoundary ==
    \/ \E r \in BoundaryRoles : Registered("w1", "E1", r, FALSE)
    \/ RegisteredInsert("w1")
    \/ \E r \in BoundaryRoles : RoleChanged("w1", "E1", r, FALSE)
    \/ RoleChangedCommit("w1")
    \/ Confirm("w1", "E1")
    \/ ConfirmCommit("w1")
    \/ ConfirmPublish("w1")
    \/ Dismiss("w1", "E1")
    \/ DismissCommit("w1")
    \/ DismissPublish("w1")
    \/ CreateManual("w1", 9, 20, 150)
    \/ CreateEntry("w1")
    \/ CreatePublish("w1")
    \/ \E id \in 1..MaxManualId : DeleteManual("w1", id)
    \/ DeleteEntrySelect("w1")
    \/ DeleteEntryCommit("w1")
    \/ DeleteManualCommit("w1")

SpecBoundary == (\E b \in BusStates : BootedWith(Date(2025, 3, 10), b)) /\ [][NextBoundary]_vars

\* the service serving requests on an empty payment_cycle_config table: the
\* cycle check of lifespan raised on its first statement (lifespan catches
\* the exception and the service starts all the same), or a second instance
\* has come up on the same fresh database
InitConfig ==
    /\ today = Date(2025, 3, 10)
    /\ up = TRUE
    /\ positions = SeededPositions
    /\ bus = "open"
    /\ status = {}
    /\ nextStatusId = 1
    /\ config = {}
    /\ nextConfigId = 1
    /\ manual = {}
    /\ nextManualId = 1
    /\ ledger = {}
    /\ nextLedgerId = 1
    /\ pc = [p \in Procs |-> "idle"]
    /\ loc = [p \in Procs |-> Idle]
    /\ pending = [p \in Procs |-> {}]
    /\ result = [p \in Procs |-> NoResult]
    /\ trace = [p \in Procs |-> <<>>]
    /\ probe = NoEvent
    /\ page = [p \in Procs |-> <<>>]
    /\ inbox = [p \in Procs |-> NoMessage]

\* concurrent requests that all go through get_or_create_config
NextConfig ==
    \E p \in Procs :
        \/ CheckReset(p)
        \/ CheckDecide(p)
        \/ ManualReset(p)
        \/ ResetCount(p)
        \/ ResetUpdate(p)
        \/ GetConfigSelect(p)
        \/ GetConfigCreate(p)
        \/ ResetCommit(p)
        \/ \E d \in ResetDays : UpdateConfig(p, d)
        \/ UpdateConfigCommit(p)

SpecConfig == InitConfig /\ [][NextConfig]_vars

\* every operation that writes, one request or message at a time, on a staffed
\* service the day before and on the reset day
NextFrame ==
    \/ \E e \in Employees : Deleted("w1", e, FALSE)
    \/ \E e \in Employees, r \in CatalogRoles : RoleChanged("w1", e, r, FALSE)
    \/ RoleChangedCommit("w1")
    \/ \E e \in Employees : Confirm("w1", e)
    \/ ConfirmCommit("w1")
    \/ ConfirmPublish("w1")
    \/ \E e \in Employees : Dismiss("w1", e)
    \/ DismissCommit("w1")
    \/ DismissPublish("w1")
    \/ CheckReset("w1")
    \/ CheckDecide("w1")
    \/ ManualReset("w1")
    \/ ResetCount("w1")
    \/ ResetUpdate("w1")
    \/ GetConfigSelect("w1")
    \/ ResetCommit("w1")
    \/ CreateManual("w1", 9, 20, 150)
    \/ CreateEntry("w1")
    \/ CreatePublish("w1")
    \/ \E id \in 1..MaxManualId : DeleteManual("w1", id)
    \/ DeleteEntrySelect("w1")
    \/ DeleteEntryCommit("w1")
    \/ DeleteManualCommit("w1")
    \/ Tick(Date(2025, 3, 10))

SpecFrame == InitCycle /\ [][NextFrame]_vars

\* a staff of up to three registered employees
DemoStaff == {"E1", "E2", "E3"}

DemoRow(i, e, paid) ==
    [id |-> i, employee_id |-> e, position_name |-> "PERSONAL_TRAINER",
     paid |-> paid, last_payment |-> IF paid THEN Date(2025, 3, 8) ELSE NoDate]

\* the service is started (or started again) on a database that holds these
\* employees, with or without a configuration row
InitDemo ==
    /\ today \in StartDates
    /\ up = FALSE
    /\ positions = SeededPositions
    /\ bus = "open"
    /\ \E paid1, paid2, paid3 \in BOOLEAN, n \in 0..3 :
          status = {r \in {DemoRow(1, "E1", paid1), DemoRow(2, "E2", paid2),
                           DemoRow(3, "E3", paid3)} : r.id <= n}
    /\ nextStatusId = 4
    /\ \/ config = {} /\ nextConfigId = 1
       \/ /\ config = {[id |-> 1, reset_day |-> DefaultResetDay,
                        last_reset_date |-> NoDate]}
          /\ nextConfigId = 2
    /\ manual = {}
    /\ nextManualId = 1
    /\ ledger = {}
    /\ nextLedgerId = 1
    /\ pc = [p \in Procs |-> "idle"]
    /\ loc = [p \in Procs |-> Idle]
    /\ pending = [p \in Procs |-> {}]
    /\ result = [p \in Procs |-> NoResult]
    /\ trace = [p \in Procs |-> <<>>]
    /\ probe = NoEvent
    /\ page = [p \in Procs |-> <<>>]
    /\ inbox = [p \in Procs |-> NoMessage]

\* lifespan, start to yield
NextDemo ==
    \/ Startup("w1")
    \/ GetConfigSelect("w1")
    \/ GetConfigCreate("w1")
    \/ CheckDecide("w1")
    \/ ResetCount("w1")
    \/ ResetUpdate("w1")
    \/ ResetCommit("w1")
    \/ DemoSelect("w1")
    \/ DemoPay("w1")
    \/ DemoCommit("w1")
    \/ SeedExpenses("w1")

SpecDemo == InitDemo /\ [][NextDemo]_vars

\* bodies that carry the employee under id, under employeeId, under both or
\* under neither
AliasMessages ==
    {[kind |-> k, id |-> i, employeeId |-> a,
      role |-> IF k = "registered" THEN "PERSONAL_TRAINER"
               ELSE IF k = "role_changed" THEN "MANAGER" ELSE ""] :
        k \in HandlerKinds, i \in Employees \cup {Absent}, a \in Employees \cup {Absent}}

NextAlias ==
    \/ \E m \in AliasMessages : Deliver("w1", m)
    \/ Consume("w1")
    \/ RegisteredInsert("w1")
    \/ RoleChangedCommit("w1")

SpecAlias == Booted(Date(2025, 3, 10)) /\ [][NextAlias]_vars

\* well-formed manual expenses created and deleted one request at a time,
\* with a database that may be lost before the last commit of a deletion
NextRemove ==
    \/ \E v \in Values : CreateManual("w1", 9, 20, v)
    \/ CreateEntry("w1")
    \/ CreatePublish("w1")
    \/ \E id \in 1..MaxManualId : DeleteManual("w1", id)
    \/ DeleteEntrySelect("w1")
    \/ DeleteEntryCommit("w1")
    \/ DeleteManualCommit("w1")
    \/ DeleteManualCommitFails("w1")

SpecRemove == Booted(Date(2025, 3, 10)) /\ [][NextRemove]_vars

\* the amounts asked to be recorded: a salary, nothing, a negative amount
Amounts == {3500, 0, -5}

\* every way a row is asked to be recorded in the expenses table
NextAmounts ==
    \/ \E v \in Values : CreateManual("w1", 9, 20, v)
    \/ \E v \in Amounts \ {3500} : CreateManualRejected("w1", 9, 20, v)
    \/ CreateEntry("w1")
    \/ CreatePublish("w1")
    \/ \E e \in Employees, a \in Amounts, w \in BOOLEAN :
          CreateEmployeePaymentEntry("w1", e, a, w)
    \/ \E e \in Employees : Deleted("w1", e, FALSE)

SpecAmounts == InitCycle /\ [][NextAmounts]_vars

ListLimits == {2, 3}
ListOffsets == {0, 3, 6, 9}

\* two clients paging through the expenses of a started service
NextList ==
    \E p \in Procs, limit \in ListLimits, offset \in ListOffsets :
        GetAllExpenses(p, limit, offset)

SpecList == Booted(Date(2025, 3, 10)) /\ [][NextList]_vars

\* the days of the calendar the next reset date is asked on: both ends of a
\* year, a leap and a common February, a 30-day month
CalendarDates ==
    {d \in {Date(y, m, dd) : y \in {2024, 2025}, m \in {1, 2, 11, 12},
                             dd \in {1, 10, 28, 29, 31}} : ValidDate(d)}

CalendarResetDays == {1, 10, 29, 31}

\* the service on any of these days with any of these reset days configured
InitCalendar ==
    /\ today \in CalendarDates
    /\ up = TRUE
    /\ positions = SeededPositions
    /\ bus = "open"
    /\ status = {}
    /\ nextStatusId = 1
    /\ \E d \in CalendarResetDays :
          config = {[id |-> 1, reset_day |-> d, last_reset_date |-> NoDate]}
    /\ nextConfigId = 2
    /\ manual = {}
    /\ nextManualId = 1
    /\ ledger = {}
    /\ nextLedgerId = 1
    /\ pc = [p \in Procs |-> "idle"]
    /\ loc = [p \in Procs |-> Idle]
    /\ pending = [p \in Procs |-> {}]
    /\ result = [p \in Procs |-> NoResult]
    /\ trace = [p \in Procs |-> <<>>]
    /\ probe = NoEvent
    /\ page = [p \in Procs |-> <<>>]
    /\ inbox = [p \in Procs |-> NoMessage]

NextCalendar ==
    \/ GetNextResetDate("w1")
    \/ NextResetReturn("w1")

SpecCalendar == InitCalendar /\ [][NextCalendar]_vars

\* two employees, paid or not on the first day of 2024
StaffPaidOn(d, paid1, paid2) ==
    {[id |-> 1, employee_id |-> "E1", position_name |-> "PERSONAL_TRAINER",
      paid |-> paid1, last_payment |-> IF paid1 THEN d ELSE NoDate],
     [id |-> 2, employee_id |-> "E2", position_name |-> "MANAGER",
      paid |-> paid2, last_payment |-> IF paid2 THEN d ELSE NoDate]}

ShortResetDays == {10, 29, 31}

\* a staffed service on a day of 2024 or 2025 with a reset day that some
\* months do not have
InitShort ==
    /\ today \in CalendarDates
    /\ up = TRUE
    /\ positions = SeededPositions
    /\ bus = "open"
    /\ \E paid1, paid2 \in BOOLEAN : status = StaffPaidOn(Date(2024, 1, 1), paid1, paid2)
    /\ nextStatusId = 3
    /\ \E d \in ShortResetDays :
          config = {[id |-> 1, reset_day |-> d, last_reset_date |-> NoDate]}
    /\ nextConfigId = 2
    /\ manual = {}
    /\ nextManualId = 1
    /\ ledger = {}
    /\ nextLedgerId = 1
    /\ pc = [p \in Procs |-> "idle"]
    /\ loc = [p \in Procs |-> Idle]
    /\ pending = [p \in Procs |-> {}]
    /\ result = [p \in Procs |-> NoResult]
    /\ trace = [p \in Procs |-> <<>>]
    /\ probe = NoEvent
    /\ page = [p \in Procs |-> <<>>]
    /\ inbox = [p \in Procs |-> NoMessage]

\* the calendar moves on to a later one of these days
DayPasses(d) ==
    /\ Quiescent
    /\ DateLess(today, d)
    /\ today' = d
    /\ UNCHANGED <<up, positions, bus, statusTbl, configTbl, expenseTbls, pc, loc, pending,
                   result, trace, probe, page, inbox>>

\* the automatic check, as the service function and as the route, and the
\* next-reset route, over the days of short and long months
NextShort ==
    \/ CheckReset("w1")
    \/ CheckAutoReset("w1")
    \/ CheckDecide("w1")
    \/ ResetCount("w1")
    \/ ResetUpdate("w1")
    \/ GetConfigSelect("w1")
    \/ ResetCommit("w1")
    \/ GetNextResetDate("w1")
    \/ NextResetReturn("w1")
    \/ \E d \in CalendarDates : DayPasses(d)

SpecShort == InitShort /\ [][NextShort]_vars

----------------------------------------------------------------------------
(* Properties *)

\* worker p has just taken a step of its own operation
Stepped(p) == pc'[p] # pc[p] \/ loc'[p] # loc[p] \/ result'[p] # result[p]

\* worker p takes the first step of an operation of this kind
Begins(p, kind) == ~Running(p) /\ Stepped(p) /\ loc'[p].kind = kind

Ended(p, kind) == pc[p] = "done" /\ loc[p].kind = kind

\* C1: two check_and_auto_reset calls that both started while a reset was due
\* end with exactly one of them having executed the reset (a count) and the
\* other having returned None.
C1_OneResetPerDueDate ==
    \A p, q \in Procs :
        (/\ p # q
         /\ Ended(p, "check_reset") /\ loc[p].due0
         /\ Ended(q, "check_reset") /\ loc[q].due0)
        => (result[p].value = NoOp) # (result[q].value = NoOp)

\* C2: in every committed state each live manual expense has exactly one
\* ledger row of type manual referencing it, and each ledger row of type
\* manual references a live manual expense.
C2_LedgerBijection ==
    /\ \A m \in manual : Cardinality(ManualLedgerRows(m.id)) = 1
    /\ \A x \in ledger :
          x.expense_type = "manual" => \E m \in manual : m.id = x.reference_id

\* C3: one operation at a time: right after a successful create_manual_expense
\* exactly one ledger row of type manual references the new expense; right
\* after a successful delete_manual_expense no such row is left and the manual
\* expense is gone.
C3_CreateThenDelete ==
    \A p \in Procs :
        /\ (Ended(p, "create_expense") /\ result[p].code = "ok")
              => Cardinality(ManualLedgerRows(loc[p].expid)) = 1
        /\ (Ended(p, "delete_expense") /\ result[p].code = "ok")
              => /\ ManualLedgerRows(loc[p].expid) = {}
                 /\ ~\E m \in manual : m.id = loc[p].expid

\* a delete that found the expense, removed its ledger row and then the expense
C3_Witness ==
    \E p \in Procs :
        /\ Ended(p, "delete_expense") /\ result[p].code = "ok"
        /\ trace[p] = <<"commit", "commit", "finance.expense.deleted">>

\* C4: a create_manual_expense that fails leaves neither the manual expense
\* nor a ledger row behind.
C4_AllOrNothing ==
    \A p \in Procs :
        (Ended(p, "create_expense") /\ result[p].code # "ok")
        => /\ ~\E m \in manual : m.id = loc[p].expid
           /\ ManualLedgerRows(loc[p].expid) = {}

\* C5: a successful confirm_payment of an employee whose position has salary
\* s > 0 leaves the row paid with last_payment set and exactly one more
\* employee_payment ledger row, of amount s.
C5_ConfirmAddsLedgerRow ==
    \A p \in Procs :
        (Ended(p, "confirm") /\ result[p].code = "ok" /\ loc[p].salary > 0)
        => /\ \A r \in RowsOf(loc[p].emp) : r.paid /\ r.last_payment # NoDate
           /\ Cardinality(PaymentRows) = loc[p].led0 + 1
           /\ \E x \in PaymentRows : x.amount = loc[p].salary

\* C6: every payment-status row with paid = true has last_payment set.
C6_PaidHasLastPayment ==
    \A r \in status : r.paid => r.last_payment # NoDate

\* a startup whose demo initialization has paid someone
C6_Witness ==
    /\ \E r \in status : r.paid
    /\ \E p \in Procs : Ended(p, "startup") /\ result[p].value > 0

\* C7: a registered event delivered for an id that already has a row changes
\* nothing of the store (whatever the row's role and paid state), is
\* acknowledged, and leaves exactly one row for the id.
C7_ReRegisterNoOp ==
    [][\A p \in Procs :
          (Begins(p, "registered") /\ RowsOf(loc'[p].emp) # {})
          => /\ status' = status
             /\ nextStatusId' = nextStatusId
             /\ pc'[p] = "done"
             /\ result'[p] = Res("ack", 0)
             /\ Cardinality(RowsOf(loc'[p].emp)) = 1]_vars

\* a redelivered registration that found the row paid and under another role
C7_Witness ==
    \E p \in Procs :
        /\ Ended(p, "registered") /\ loc[p].found
        /\ \E r \in RowsOf(loc[p].emp) : r.paid /\ r.position_name # loc[p].role

\* C8: whatever the interleaving of the handlers, no employee_id has more
\* than one row and every handler ends by acknowledging its message.
C8_UniqueEmployeeRows ==
    /\ \A e \in Employees : Cardinality(RowsOf(e)) <= 1
    /\ \A p \in Procs : pc[p] = "done" => result[p].code = "ack"

\* a registration that read "no row" and whose insert was then refused
C8_Witness ==
    \E p \in Procs :
        /\ Ended(p, "registered") /\ ~loc[p].found /\ result[p].value = 0
        /\ Cardinality(RowsOf(loc[p].emp)) = 1

\* C9: handling a redelivered event (one the bus has delivered before) leaves
\* the payment-status store as it was.
C9_RedeliveryNeutral ==
    [][\A p \in Procs : (Stepped(p) /\ loc'[p].redelivered) => status' = status]_vars

\* C10: a role_changed event for an id without a row creates no row, changes
\* no row, commits nothing and is acknowledged, also while a registration of
\* that id is in flight.
C10_RoleChangeDropped ==
    [][\A p \in Procs :
          (Begins(p, "role_changed") /\ RowsOf(loc'[p].emp) = {})
          => /\ status' = status
             /\ nextStatusId' = nextStatusId
             /\ pc'[p] = "done"
             /\ result'[p] = Res("ack", 0)
             /\ trace'[p] = <<>>]_vars

\* a dropped role change beside a registration of the same id not yet inserted
C10_Witness ==
    \E p, q \in Procs :
        /\ Ended(p, "role_changed") /\ ~loc[p].found
        /\ pc[q] = "reg_insert" /\ loc[q].emp = loc[p].emp
        /\ RowsOf(loc[p].emp) = {}

\* worker p takes the step at label of an operation of this kind
At(p, kind, label) == pc[p] = label /\ loc[p].kind = kind /\ Stepped(p)

SameMonth(a, b) == a.year = b.year /\ a.month = b.month

\* the call returns None and has written nothing
NoOpReturn(p) ==
    /\ pc'[p] = "done"
    /\ result'[p] = Res("ok", NoOp)
    /\ status' = status
    /\ config' = config

\* C11: with last_reset_date null, check_and_auto_reset is a no-op on a day
\* before reset_day; on a day >= reset_day it resets, returns the number of
\* paid rows and stamps last_reset_date with that day; a further call on the
\* day of the stamp is a no-op that changes nothing.
C11_FirstDueCheckResets ==
    [][\A p \in Procs : \A c \in config :
          /\ Begins(p, "check_reset") => status' = status /\ config' = config
          /\ At(p, "check_reset", "check_decide") =>
                /\ (c.last_reset_date = NoDate /\ today.day < c.reset_day)
                      => NoOpReturn(p)
                /\ (c.last_reset_date = NoDate /\ today.day >= c.reset_day)
                      => pc'[p] = "reset_count"
                /\ c.last_reset_date = today => NoOpReturn(p)
          /\ At(p, "check_reset", "reset_commit") =>
                /\ result'[p] = Res("ok", Cardinality(PaidNow))
                /\ \A d \in config' : d.last_reset_date = today]_vars

\* the check on the 10th that reset the paid rows
C11_Witness ==
    \E p \in Procs : \E c \in config :
        /\ Ended(p, "check_reset") /\ result[p].value >= 1
        /\ today = Date(2025, 3, 10) /\ c.reset_day = 10 /\ c.last_reset_date = today

C13_ResetCountsPaidRows ==
    [][\A p \in Procs :
          At(p, "check_reset", "reset_commit") =>
             /\ loc[p].count = Cardinality(PaidNow)
             /\ \A r \in status' : ~r.paid
             /\ {r.id : r \in status'} = {r.id : r \in status}
             /\ \A c \in config' : c.last_reset_date = today
             /\ pc'[p] = "done"
             /\ result'[p] = Res("ok", loc[p].count)
             /\ result'[p].value # NoOp]_vars

\* a reset that ran with no paid row and returned 0
C13_Witness ==
    \E p \in Procs : \E c \in config :
        /\ Ended(p, "check_reset") /\ result[p] = Res("ok", 0)
        /\ c.last_reset_date = today
        /\ status # {}

\* C14: manual_reset skips the date gate: every call counts the paid rows,
\* flips them, stamps last_reset_date with today and returns the count,
\* whatever the day and whatever last_reset_date was.
C14_ManualResetAlwaysRuns ==
    [][\A p \in Procs :
          /\ Begins(p, "manual_reset") =>
                pc'[p] = "reset_update" /\ loc'[p].count = Cardinality(PaidNow)
          /\ (Running(p) /\ loc[p].kind = "manual_reset" /\ Stepped(p)) =>
                \/ pc'[p] \in {"cfg_select", "reset_commit"}
                \/ /\ pc[p] = "reset_commit"
                   /\ pc'[p] = "done"
                   /\ \A r \in status' : ~r.paid
                   /\ \A c \in config' : c.last_reset_date = today
                   /\ result'[p] = Res("ok", Cardinality(PaidNow))]_vars

\* a manual reset about to commit on a day before the reset day, in a month
\* that already had a reset
C14_Witness ==
    \E p \in Procs :
        /\ pc[p] = "reset_commit" /\ loc[p].kind = "manual_reset" /\ loc[p].count >= 1
        /\ today = Date(2025, 4, 11) /\ loc[p].cfg.reset_day = 15
        /\ SameMonth(loc[p].cfg.last_reset_date, today)

\* C15: a handler given a body that is not JSON or that fails its schema
\* (no id, no role, ...) leaves the store as it is, ends without an
\* exception, acknowledges the message and leaves the consumer ready for the
\* next one.
C15_MalformedDropped ==
    [][\A p \in Procs :
          /\ \A kind \in HandlerKinds :
                /\ ~PayloadValid(kind, [shape |-> "garbage", keys |-> {}])
                /\ ~PayloadValid(kind, [shape |-> "object", keys |-> {"role", "rest"}])
                /\ kind # "deleted"
                      => ~PayloadValid(kind, [shape |-> "object", keys |-> {"id", "rest"}])
          /\ (~Running(p) /\ Stepped(p) /\ loc'[p].fault = "payload") =>
                /\ loc'[p].kind \in HandlerKinds
                /\ status' = status /\ nextStatusId' = nextStatusId
                /\ pc'[p] = "done"
                /\ result'[p] = Res("ack", 0)
                /\ trace'[p] = <<>>
                /\ pending'[p] = {} /\ up']_vars

\* a malformed message dropped while the store holds a row
C15_Witness ==
    \E p \in Procs :
        /\ pc[p] = "done" /\ loc[p].fault = "payload" /\ result[p].code = "ack"
        /\ status # {}

\* C16: a handler whose storage transaction failed does not acknowledge its
\* message, so that the bus delivers the event again.
C16_StorageErrorNotAcked ==
    \A p \in Procs :
        (pc[p] = "done" /\ loc[p].fault = "storage") => result[p].code # "ack"

\* C17: whatever the state of the publisher (disabled, no channel, publish
\* raising), the publishing step of confirm_payment, dismiss_employee,
\* create_manual_expense and delete_manual_expense ends the request with
\* success and leaves what was committed in place.
C17_PublisherFailureHarmless ==
    [][\A p \in Procs :
          /\ (pc[p] \in {"pay_publish", "dis_publish", "exp_publish"} /\ Stepped(p)) =>
                /\ pc'[p] = "done" /\ result'[p].code = "ok"
                /\ status' = status /\ manual' = manual /\ ledger' = ledger
          /\ (pc[p] = "del_manual_commit" /\ Stepped(p)) =>
                /\ pc'[p] = "done" /\ result'[p].code = "ok"
                /\ ~\E m \in manual' : m.id = loc[p].expid
                /\ status' = status /\ ledger' = ledger]_vars

\* a payment confirmed while every publish raises
C17_Witness ==
    \E p \in Procs :
        /\ bus = "closed"
        /\ Ended(p, "confirm") /\ result[p].code = "ok"
        /\ \E r \in RowsOf(loc[p].emp) : r.paid

\* C18: a publisher call is made only when the calling operation holds no
\* uncommitted change.
C18_PublishAfterCommit ==
    [][\A p \in Procs :
          (/\ Len(trace'[p]) > Len(trace[p])
           /\ \E i \in (Len(trace[p]) + 1)..Len(trace'[p]) : trace'[p][i] # "commit")
          => pending'[p] = {}]_vars

\* C19: the three event handlers write the payment-status table only: they
\* publish nothing and leave the expenses, the manual expenses, the positions
\* and the cycle configuration as they were.
C19_HandlersWriteStatusOnly ==
    [][\A p \in Procs :
          (Stepped(p) /\ loc'[p].kind \in HandlerKinds) =>
             /\ UNCHANGED <<ledger, manual, positions, config>>
             /\ \A i \in DOMAIN trace'[p] : trace'[p][i] = "commit"]_vars

\* a role change that was applied and committed
C19_Witness ==
    \E p \in Procs :
        /\ Ended(p, "role_changed") /\ loc[p].found /\ result[p] = Res("ack", 1)
        /\ trace[p] = <<"commit">>
        /\ \E r \in RowsOf(loc[p].emp) : r.position_name = loc[p].role

\* a position name that resolves to no salary: empty, or not in the catalog
Unsalaried(name) == name = "" \/ name \notin DOMAIN positions

\* C20: confirm_payment of an existing employee whose position is empty or
\* absent from the catalog takes salary 0, sets paid and last_payment,
\* commits and ends with success, reporting amount 0.
C20_MissingPositionPaysZero ==
    [][\A p \in Procs :
          /\ (Begins(p, "confirm") /\ loc'[p].found
                /\ Unsalaried(loc'[p].row.position_name))
                => loc'[p].salary = 0 /\ pc'[p] = "pay_commit"
          /\ (Running(p) /\ Stepped(p) /\ loc[p].kind = "confirm"
                /\ Unsalaried(loc[p].row.position_name)) =>
                /\ pc[p] = "pay_commit" =>
                      /\ pc'[p] = "pay_publish"
                      /\ \A r \in status' : r.employee_id = loc[p].emp
                                               => r.paid /\ r.last_payment = today
                /\ pc[p] = "pay_publish" =>
                      /\ result'[p] = Res("ok", 0)
                      /\ trace'[p][Len(trace[p]) + 1] = "employee-paid-queue"]_vars

\* a confirmed payment of an employee with an empty position
C20_Witness ==
    \E p \in Procs :
        /\ Ended(p, "confirm") /\ result[p] = Res("ok", 0)
        /\ \E r \in RowsOf(loc[p].emp) : r.position_name = "" /\ r.paid

\* C21: confirm_payment works in a fixed order: when it starts publishing,
\* its update is committed and the employee_payment row of the confirmation
\* is in the expenses table; it then emits the paid event followed by the
\* two status-changed events.
C21_ConfirmOrder ==
    [][\A p \in Procs :
          (pc[p] = "pay_publish" /\ Stepped(p) /\ loc[p].salary > 0) =>
             /\ trace[p] = <<"commit">>
             /\ Cardinality(PaymentRows) = loc[p].led0 + 1
             /\ trace'[p] = <<"commit", "employee-paid-queue",
                              "analytics-employee-status-changed-queue",
                              "user-employee-status-changed-queue">>]_vars

\* C22: payment_cycle_config never holds more than one row, it holds one as
\* soon as a request has gone through get_or_create_config, and while no
\* request has changed it that row is the default one.
C22_ConfigSingleton ==
    /\ Cardinality(config) <= 1
    /\ (\E p \in Procs : pc[p] = "done") => config # {}

\* C23: reset_day of every stored configuration is within 1..31; an
\* update_config request with a value outside 1..31 ends at once with a
\* validation error and changes nothing stored; a value inside the range
\* replaces reset_day and leaves last_reset_date as it was.
C23_ResetDayRange ==
    [][/\ \A c \in config' : c.reset_day \in 1..31
       /\ \A p \in Procs :
             /\ (Begins(p, "update_config") /\ loc'[p].value \notin 1..31) =>
                   /\ pc'[p] = "done"
                   /\ result'[p].code = "422"
                   /\ trace'[p] = <<>>
                   /\ UNCHANGED <<statusTbl, configTbl, expenseTbls>>
             /\ At(p, "update_config", "cfg_update") =>
                   /\ loc[p].value \in 1..31
                   /\ \A c \in config' : c.reset_day = loc[p].value
                   /\ {c.last_reset_date : c \in config'} =
                         {c.last_reset_date : c \in config}
                   /\ UNCHANGED <<statusTbl, expenseTbls>>]_vars

\* a request with reset_day = 32 was refused after an earlier one had set
\* reset_day = 15
C23_Witness ==
    \E p \in Procs :
        /\ Ended(p, "update_config")
        /\ loc[p].value = 32
        /\ result[p].code = "422"
        /\ \E c \in config : c.reset_day = 15

\* C24: whenever the date it describes exists, get_next_reset_date returns
\* reset_day of the current month if today.day < reset_day, else reset_day of
\* the following month (January of the next year after December), and that
\* date is strictly after today.
C24_NextResetDate ==
    [][\A p \in Procs :
          At(p, "next_reset", "next_reset") =>
             LET r == loc[p].cfg.reset_day
                 m == IF today.month = 12 THEN 1 ELSE today.month + 1
                 y == IF today.month = 12 THEN today.year + 1 ELSE today.year
                 e == IF today.day < r THEN [year |-> today.year, month |-> today.month, day |-> r]
                                       ELSE [year |-> y, month |-> m, day |-> r]
             IN ValidDate(e) =>
                   /\ result'[p] = [code |-> "ok", value |-> DateNum(e)]
                   /\ DateLess(today, e)]_vars

\* asked on 31 December 2024 with reset_day = 10: 10 January 2025
C24_Witness ==
    \E p \in Procs :
        /\ Ended(p, "next_reset")
        /\ today = Date(2024, 12, 31)
        /\ result[p] = [code |-> "ok", value |-> 20250110]

\* C25: a listing of the expenses is in one total order, expense_date
\* descending and rows of equal date in insertion order; so two listings of
\* the unchanged table with the same limit and offset are equal, and pages
\* of one size at different offsets share no row.
C25_StableListing ==
    /\ \A p \in Procs :
          Ended(p, "list") =>
             \A i, j \in 1..Len(page[p]) :
                i < j =>
                   \A x, y \in ledger :
                      (x.id = page[p][i] /\ y.id = page[p][j]) =>
                         \/ DateLess(y.expense_date, x.expense_date)
                         \/ x.expense_date = y.expense_date /\ x.id < y.id
    /\ \A p, q \in Procs :
          (/\ Ended(p, "list") /\ Ended(q, "list")
           /\ loc[p].limit = loc[q].limit) =>
             /\ loc[p].offset = loc[q].offset => page[p] = page[q]
             /\ (loc[p].limit > 0 /\ loc[p].offset # loc[q].offset) =>
                   {page[p][i] : i \in 1..Len(page[p])} \cap
                   {page[q][i] : i \in 1..Len(page[q])} = {}

\* C26: no step deletes or changes an employee_payment row of the expenses
\* table: the set of these rows only grows, through resets, dismissals,
\* deleted and role-changed events and deletions of manual expenses.
C26_PaymentRowsPermanent ==
    [][PaymentRows \subseteq {x \in ledger' : x.expense_type = "employee_payment"}]_vars

\* a reset has run, an employee's row is gone and a manual expense has been
\* deleted with the payment rows still there
C26_Witness ==
    /\ Ended("w1", "delete_expense")
    /\ result["w1"].code = "ok"
    /\ Cardinality(status) = 1
    /\ \E c \in config : c.last_reset_date = today
    /\ Cardinality(PaymentRows) = 3

\* C27: handling employee.deleted removes the payment-status row of that
\* employee and no other: with a row present the table loses exactly one row
\* and the others are as they were; with none present nothing changes and the
\* message is acknowledged; after it the employee has no row, so handling it
\* again changes nothing.
C27_DeletedFrame ==
    [][\A p \in Procs :
          (Begins(p, "deleted") /\ loc'[p].fault = "") =>
             LET e == loc'[p].emp
                 mine == {r \in status : r.employee_id = e}
             IN /\ \A r \in status : r.employee_id # e => r \in status'
                /\ \A r \in status' : r \in status /\ r.employee_id # e
                /\ mine # {} => Cardinality(status') = Cardinality(status) - 1
                /\ mine = {} => status' = status
                /\ pc'[p] = "done" /\ result'[p].code = "ack"
                /\ UNCHANGED <<nextStatusId, configTbl, expenseTbls>>]_vars

\* the event removed the row of E1 and left the paid row of E2
C27_Witness ==
    /\ Ended("w1", "deleted")
    /\ loc["w1"].emp = "E1"
    /\ loc["w1"].found
    /\ \E r \in status : r.employee_id = "E2" /\ r.paid
    /\ Cardinality(status) = 1

\* C28: handling employee.role_changed for an employee that has a row sets
\* position_name of that row to the role and nothing else: its paid and
\* last_payment, every other row, the configuration and the expenses are as
\* they were.
C28_RoleChangedFrame ==
    [][\A p \in Procs :
          /\ (Begins(p, "role_changed") /\ loc'[p].fault = "") => status' = status
          /\ At(p, "role_changed", "role_commit") =>
                /\ loc[p].row \in status
                /\ status' = (status \ {loc[p].row}) \cup
                                {[loc[p].row EXCEPT !.position_name = loc[p].role]}
                /\ \A r \in status' : r.id = loc[p].row.id =>
                      /\ r.position_name = loc[p].role
                      /\ r.paid = loc[p].row.paid
                      /\ r.last_payment = loc[p].row.last_payment
                /\ UNCHANGED <<nextStatusId, configTbl, expenseTbls>>]_vars

\* the paid PERSONAL_TRAINER E1 has become a MANAGER and is still paid
C28_Witness ==
    /\ Ended("w1", "role_changed")
    /\ result["w1"] = [code |-> "ack", value |-> 1]
    /\ \E r \in status :
          /\ r.employee_id = "E1" /\ r.position_name = "MANAGER"
          /\ r.paid /\ r.last_payment = Date(2025, 3, 9)
    /\ Cardinality(status) = 2

C30_NotFound ==
    [][\A p \in Procs :
          (\/ /\ Begins(p, "confirm") \/ Begins(p, "dismiss")
              /\ \A r \in status : r.employee_id # loc'[p].emp
           \/ /\ Begins(p, "delete_expense")
              /\ \A m \in manual : m.id # loc'[p].expid) =>
             /\ pc'[p] = "done"
             /\ result'[p].code = "404"
             /\ trace'[p] = <<>>
             /\ UNCHANGED <<statusTbl, configTbl, expenseTbls>>]_vars

\* E1 was deleted and a dismissal of E1 was then refused
C30_Witness ==
    /\ Ended("w1", "dismiss")
    /\ loc["w1"].emp = "E1"
    /\ result["w1"].code = "404"
    /\ \A r \in status : r.employee_id # "E1"
    /\ trace["w1"] = <<>>

\* C31: initialize_demo_payments over n unpaid employees picks n / 2 rounded
\* up of them (none when n = 0), all of them unpaid, and its commit marks the
\* picked rows paid and leaves the rows already paid as they were.
C31_DemoHalfRoundedUp ==
    [][\A p \in Procs :
          /\ (pc[p] = "demo_select" /\ Stepped(p)) =>
                /\ loc'[p].rows \subseteq UnpaidNow
                /\ Cardinality(loc'[p].rows) = (Cardinality(UnpaidNow) + 1) \div 2
          /\ (pc[p] = "demo_commit" /\ pc'[p] = "seed_expenses") =>
                /\ \A r \in status : r.paid => r \in status'
                /\ \A r \in status :
                      (\E u \in pending[p] : u.id = r.id) => ~r.paid]_vars

\* C32: an execution that has committed a reset never goes on to the demo
\* payment step: when its reset commit is done every row is unpaid and the
\* execution does not enter initialize_demo_payments.
C32_NoDemoAfterReset ==
    [][\A p \in Procs :
          (pc[p] = "reset_commit" /\ Stepped(p)) =>
             /\ \A r \in status' : ~r.paid
             /\ pc'[p] \notin {"demo_select", "demo_pay", "demo_commit"}]_vars

\* C33: a handler works on the identity found under id, or under employeeId
\* when the body has no id: a body with employeeId only is handled as the
\* handler handles that value given as id, a body with both is handled by its
\* id, and a body with neither is dropped with nothing written.
C33_AliasNormalized ==
    [][\A p \in Procs :
          (\E k \in HandlerKinds : Begins(p, k)) =>
             LET m == inbox[p]
                 canon == IF m.id # Absent THEN m.id ELSE m.employeeId
             IN IF canon = Absent
                   THEN /\ loc'[p].fault = "payload"
                        /\ pc'[p] = "done"
                        /\ UNCHANGED <<statusTbl, configTbl, expenseTbls>>
                   ELSE /\ loc'[p].emp = canon
                        /\ loc'[p].fault = ""
                        /\ \/ m.kind = "registered" /\ Registered(p, canon, m.role, FALSE)
                           \/ m.kind = "deleted" /\ Deleted(p, canon, FALSE)
                           \/ m.kind = "role_changed" /\ RoleChanged(p, canon, m.role, FALSE)]_vars

\* a deleted message naming E1 under employeeId only has removed the row of E1
C33_Witness ==
    /\ inbox["w1"] = [kind |-> "deleted", id |-> Absent, employeeId |-> "E1", role |-> ""]
    /\ Ended("w1", "deleted")
    /\ loc["w1"].emp = "E1"
    /\ loc["w1"].found
    /\ \A r \in status : r.employee_id # "E1"

\* C34: delete_manual_expense removes the ledger row and the manual expense
\* together or not at all: after a deletion that ended in an error the
\* manual expense and its ledger row are both still there; a deletion that
\* finds no ledger row still removes the manual expense.
C34_DeleteTogether ==
    \A p \in Procs :
        Ended(p, "delete_expense") =>
           /\ (result[p].code = "500" /\ \E m \in manual : m.id = loc[p].expid) =>
                 ManualLedgerRows(loc[p].expid) # {}
           /\ result[p].code = "ok" =>
                 /\ ~\E m \in manual : m.id = loc[p].expid
                 /\ ManualLedgerRows(loc[p].expid) = {}

\* C35: every row of the expenses table has amount > 0: a manual expense or
\* an employee payment asked to be recorded with amount <= 0 ends in an
\* error and the expenses table is as it was.
C35_AmountPositive ==
    [][/\ \A x \in ledger' : x.amount > 0
       /\ \A p \in Procs :
             ((Begins(p, "payment_entry") \/ Begins(p, "create_expense"))
                 /\ loc'[p].value <= 0) =>
                /\ pc'[p] = "done"
                /\ result'[p].code \in {"422", "500"}
                /\ UNCHANGED <<statusTbl, configTbl, expenseTbls>>]_vars

\* an employee payment of 0 was refused after one of 3500 had been recorded
C35_Witness ==
    /\ Ended("w1", "payment_entry")
    /\ loc["w1"].value = 0
    /\ result["w1"].code = "500"
    /\ \E x \in PaymentRows : x.amount = 3500 /\ x.id > Len(DemoExpenses)

\* C36: the count a reset returns is the number of rows its bulk update
\* flips from paid to unpaid, also when payments are confirmed while it runs.
C36_CountIsFlipped ==
    [][\A p \in Procs :
          (pc[p] = "reset_update" /\ Stepped(p)) =>
             Cardinality(pending'[p]) = loc[p].count]_vars

\* C37: when the month get_next_reset_date aims at has fewer days than
\* reset_day, the date is not clamped to the month's last day: the
\* next-reset request, and the check-auto-reset request on its no-reset
\* branch, end in an error and nothing stored changes.
C37_NoClamp ==
    [][\A p \in Procs :
          (pc[p] = "next_reset" /\ Stepped(p)) =>
             LET r == loc[p].cfg.reset_day
                 m == IF today.day < r THEN today.month
                      ELSE IF today.month = 12 THEN 1 ELSE today.month + 1
                 y == IF today.day >= r /\ today.month = 12 THEN today.year + 1
                      ELSE today.year
             IN /\ r > DaysIn(y, m) => result'[p].code = "500"
                /\ r <= DaysIn(y, m) => result'[p] = [code |-> "ok", value |-> DateNum(Date(y, m, r))]
                /\ UNCHANGED <<statusTbl, configTbl, expenseTbls>>]_vars

\* on 31 January 2025 with reset_day = 31 the reset has run, and a second
\* check-auto-reset of the day fails on 31 February
C37_Witness ==
    /\ Ended("w1", "check_route")
    /\ result["w1"].code = "500"
    /\ today = Date(2025, 1, 31)
    /\ \E c \in config : c.reset_day = 31 /\ c.last_reset_date = today

\* C39: in a month that has fewer days than reset_day every automatic check
\* decides for no reset: it writes nothing, so the paid flags are as
\* they were.
C39_ShortMonthNoReset ==
    [][\A p \in Procs :
          (/\ pc[p] = "check_decide" /\ Stepped(p)
           /\ loc[p].kind \in {"check_reset", "check_route"}
           /\ DaysIn(today.year, today.month) < loc[p].cfg.reset_day) =>
             /\ pc'[p] # "reset_count"
             /\ loc[p].kind = "check_reset" => result'[p] = [code |-> "ok", value |-> NoOp]
             /\ UNCHANGED <<statusTbl, configTbl, expenseTbls>>]_vars

\* the check on 28 February 2025, the last day of the month, with
\* reset_day = 31: no reset, E1 is still paid
C39_Witness ==
    /\ Ended("w1", "check_reset")
    /\ result["w1"] = [code |-> "ok", value |-> NoOp]
    /\ today = Date(2025, 2, 28)
    /\ \E c \in config : c.reset_day = 31
    /\ \E r \in status : r.employee_id = "E1" /\ r.paid

\* C38: once a reset, manual ones included, has stamped last_reset_date in
\* the current month, every automatic check of that month decides for no
\* reset and writes nothing, also when the stamp is from before reset_day
\* and the check is on or after it.
C38_ManualStampSuppresses ==
    [][\A p \in Procs :
          (/\ pc[p] = "check_decide" /\ Stepped(p)
           /\ loc[p].kind = "check_reset"
           /\ SameMonth(loc[p].cfg.last_reset_date, today)) =>
             /\ pc'[p] = "done"
             /\ result'[p] = [code |-> "ok", value |-> NoOp]
             /\ UNCHANGED <<statusTbl, configTbl, expenseTbls>>]_vars

\* a manual reset on 9 March, before reset_day = 10; the check on 10 March
\* does nothing
C38_Witness ==
    /\ Ended("w1", "check_reset")
    /\ result["w1"] = [code |-> "ok", value |-> NoOp]
    /\ today = Date(2025, 3, 10)
    /\ \E c \in config : c.reset_day = 10 /\ c.last_reset_date = Date(2025, 3, 9)

\* C40: update_config writes reset_day and nothing else: last_reset_date and
\* the payment-status rows are as they were.  So the next automatic check
\* goes by the new reset_day and the old stamp: no reset in a month that has
\* its stamp, a reset in a month without one once today.day >= reset_day.
C40_UpdateConfigFrame ==
    [][\A p \in Procs :
          /\ At(p, "update_config", "cfg_update") =>
                /\ \A c \in config : [c EXCEPT !.reset_day = loc[p].value] \in config'
                /\ Cardinality(config') = Cardinality(config)
                /\ UNCHANGED <<statusTbl, expenseTbls>>
          /\ At(p, "check_reset", "check_decide") =>
                \A c \in config :
                   /\ (c.last_reset_date # NoDate /\ SameMonth(c.last_reset_date, today)) =>
                         pc'[p] = "done" /\ status' = status
                   /\ (/\ ~(c.last_reset_date # NoDate /\ SameMonth(c.last_reset_date, today))
                       /\ today.day >= c.reset_day) =>
                         pc'[p] = "reset_count"]_vars

\* reset_day was lowered from 10 to 1 on 9 March, a month without a reset:
\* the check of that day has reset the paid employees
C40_Witness ==
    /\ Ended("w1", "check_reset")
    /\ result["w1"].code = "ok" /\ result["w1"].value >= 1
    /\ today = Date(2025, 3, 9)
    /\ \E c \in config : c.reset_day = 1 /\ c.last_reset_date = today
    /\ \A r \in status : ~r.paid

====
